---- MODULE Spec2Model ----
(***************************************************************************)
(* A model of toygrep's search pipeline: the growable line buffer and its  *)
(* reader (src/src/buffer/async_line_buffer.rs), the worker pool of the    *)
(* directory walker (src/src/walker_worker.rs), the searcher               *)
(* (src/src/search.rs) and the printers (src/src/print/printer.rs and      *)
(* src/src/printer.rs).                                                    *)
(*                                                                         *)
(* Offsets into a buffer are 0-based as in the source; the byte at offset  *)
(* i of a sequence s is s[i + 1].                                          *)
(***************************************************************************)
EXTENDS Integers, Sequences, FiniteSets, TLC

\* ------------------------------------------------------------------------
\* Bounds of the model
\* ------------------------------------------------------------------------

\* Longest source byte sequence fed to a line buffer reader.
MaxLen == 4

\* Largest initial buffer size (start_size_bytes) tried; 0 and 1 included.
MaxStartSize == 3

\* How many times read_line is called again after it has returned None.
MaxNoneReads == 2

\* Most paths (the root included) in a directory tree the worker pool walks.
MaxNodes == 3

\* Most workers WorkerPool::spawn is asked for (initial_count).
MaxWorkers == 2

\* Most targets a caller passes to the Searcher.
MaxTargets == 3

\* Most targets that send messages to a printer.
MaxNames == 2

\* Most messages sent to a printer in one run.
MaxMessages == 4

\* Most lines with invalid UTF-8 sent to a printer in one run.
MaxBadLines == 1

\* ------------------------------------------------------------------------
\* Bytes
\* ------------------------------------------------------------------------

\* b'\n', the line_break_byte of AsyncLineBufferBuilder::new and ::empty.
LINE_BREAK == 10

\* The bytes sources are made of: the line break, the letter 'a', and the two
\* bytes of the UTF-8 encoding of U+00E9 (0xC3 0xA9), each of which is invalid
\* UTF-8 on its own.
Bytes == {LINE_BREAK, 97, 195, 169}

BoundedSeq(S, n) == UNION {[1..k -> S] : k \in 0..n}

Max(a, b) == IF a >= b THEN a ELSE b

Min(a, b) == IF a <= b THEN a ELSE b

\* &s[from..to] of the source: the bytes at offsets from .. to-1.
Slice(s, from, to) == SubSeq(s, from + 1, to)

\* vec![0u8; n]
Zeros(n) == [i \in 1..n |-> 0]

\* ------------------------------------------------------------------------
\* UTF-8 and the Matcher (src/src/search.rs, src/src/matcher.rs)
\* ------------------------------------------------------------------------

InRange(b, lo, hi) == lo <= b /\ b <= hi

\* A continuation byte 10xxxxxx.
IsCont(bytes, i) == i <= Len(bytes) /\ InRange(bytes[i], 128, 191)

\* std::str::from_utf8(bytes).is_ok(), scanning from index i: the well-formed
\* byte sequences of the Unicode standard (table 3-7).
RECURSIVE utf8_from(_, _)
utf8_from(bytes, i) ==
    IF i > Len(bytes) THEN TRUE
    ELSE LET b == bytes[i]
             second(lo, hi) == i + 1 <= Len(bytes) /\ InRange(bytes[i + 1], lo, hi)
         IN CASE b <= 127 -> utf8_from(bytes, i + 1)
              [] InRange(b, 194, 223) ->
                    IsCont(bytes, i + 1) /\ utf8_from(bytes, i + 2)
              [] b = 224 ->
                    second(160, 191) /\ IsCont(bytes, i + 2) /\ utf8_from(bytes, i + 3)
              [] InRange(b, 225, 236) \/ InRange(b, 238, 239) ->
                    second(128, 191) /\ IsCont(bytes, i + 2) /\ utf8_from(bytes, i + 3)
              [] b = 237 ->
                    second(128, 159) /\ IsCont(bytes, i + 2) /\ utf8_from(bytes, i + 3)
              [] b = 240 ->
                    second(144, 191) /\ IsCont(bytes, i + 2) /\ IsCont(bytes, i + 3)
                    /\ utf8_from(bytes, i + 4)
              [] InRange(b, 241, 243) ->
                    second(128, 191) /\ IsCont(bytes, i + 2) /\ IsCont(bytes, i + 3)
                    /\ utf8_from(bytes, i + 4)
              [] b = 244 ->
                    second(128, 143) /\ IsCont(bytes, i + 2) /\ IsCont(bytes, i + 3)
                    /\ utf8_from(bytes, i + 4)
              [] OTHER -> FALSE

\* check_utf8
check_utf8(bytes) == utf8_from(bytes, 1)

\* The pattern the RegexMatcher is built for: the literal "a".
Pattern == <<97>>

\* Regex::find_iter for a literal pattern, scanning from offset i: the
\* leftmost occurrences, none overlapping another; after an empty match the
\* scan moves on by one byte.
RECURSIVE find_from(_, _, _)
find_from(bytes, pat, i) ==
    IF i + Len(pat) > Len(bytes)
    THEN << >>
    ELSE IF SubSeq(bytes, i + 1, i + Len(pat)) = pat
         THEN <<[start |-> i, stop |-> i + Len(pat)]>>
              \o find_from(bytes, pat, IF Len(pat) = 0 THEN i + 1 ELSE i + Len(pat))
         ELSE find_from(bytes, pat, i + 1)

\* RegexMatcher::find_matches
find_matches(bytes) == find_from(bytes, Pattern, 0)

\* RegexMatcher::is_match: Regex::is_match, some occurrence exists.
is_match(bytes) ==
    \E i \in 0..(Len(bytes) - Len(Pattern)) :
        SubSeq(bytes, i + 1, i + Len(Pattern)) = Pattern

\* ------------------------------------------------------------------------
\* AsyncLineBuffer (src/src/buffer/async_line_buffer.rs)
\*
\* A line buffer is a record [buffer, line_break_idxs, start, end].  The
\* VecDeque line_break_idxs is a sequence whose head is the front of the
\* deque.
\* ------------------------------------------------------------------------

\* AsyncLineBufferBuilder::build
build(start_size_bytes) ==
    [buffer |-> Zeros(start_size_bytes),
     line_break_idxs |-> << >>,
     start |-> 0,
     end |-> 0]

\* AsyncLineBuffer::writable_buffer: &self.buffer[self.end..]
writable_len(b) == Len(b.buffer) - b.end

\* AsyncLineBuffer::has_line
has_line(b) == b.line_break_idxs # << >>

\* ensure_capacity without the usize::max(1, ..): the length itself is
\* doubled.
ensure_capacity_no_floor(b) ==
    IF writable_len(b) # 0
    THEN b
    ELSE LET grow_to == Len(b.buffer) * 2
         IN [b EXCEPT !.buffer = b.buffer \o Zeros(grow_to - Len(b.buffer))]

\* AsyncLineBuffer::ensure_capacity
ensure_capacity(b) ==
    IF writable_len(b) # 0
    THEN b
    ELSE LET cur_factor == Max(1, Len(b.buffer))
             grow_to == cur_factor * 2
         IN [b EXCEPT !.buffer = b.buffer \o Zeros(grow_to - Len(b.buffer))]

\* The for loop of fill pushing idx instead of self.end + idx.
RECURSIVE push_breaks_relative(_, _, _, _)
push_breaks_relative(idxs, read, end, idx) ==
    IF idx >= Len(read)
    THEN idxs
    ELSE IF read[idx + 1] = LINE_BREAK
         THEN push_breaks_relative(<<idx>> \o idxs, read, end, idx + 1)
         ELSE push_breaks_relative(idxs, read, end, idx + 1)

\* The body of the for loop of fill: the offsets idx of read[..] that hold the
\* line break, in ascending order, each pushed to the front of the deque.
RECURSIVE push_breaks(_, _, _, _)
push_breaks(idxs, read, end, idx) ==
    IF idx >= Len(read)
    THEN idxs
    ELSE IF read[idx + 1] = LINE_BREAK
         THEN push_breaks(<<end + idx>> \o idxs, read, end, idx + 1)
         ELSE push_breaks(idxs, read, end, idx + 1)

\* The bytes a read of `read` leaves in the buffer: written at offset end.
write_at(buffer, end, read) ==
    SubSeq(buffer, 1, end) \o read \o SubSeq(buffer, end + Len(read) + 1, Len(buffer))

\* AsyncLineBuffer::fill, for a reader whose read call returns the bytes
\* `read` (bytes_count = Len(read), at most the writable length after
\* ensure_capacity).
fill(b, read) ==
    LET c == ensure_capacity(b)
        bytes_count == Len(read)
    IN [c EXCEPT
          !.buffer = write_at(c.buffer, c.end, read),
          !.line_break_idxs =
              IF bytes_count # 0
              THEN push_breaks(c.line_break_idxs, read, c.end, 0)
              ELSE c.line_break_idxs,
          !.end = c.end + bytes_count]

\* A refresh that also empties the Vec (self.buffer.clear()).
refresh_clears_buffer(b) ==
    [b EXCEPT !.buffer = << >>, !.start = 0, !.end = 0, !.line_break_idxs = << >>]

\* AsyncLineBuffer::refresh
refresh(b) == [b EXCEPT !.start = 0, !.end = 0, !.line_break_idxs = << >>]

\* The Option a consume returns: None, or Some(line bytes).
None == [some |-> FALSE, text |-> << >>]

Some(text) == [some |-> TRUE, text |-> text]

\* AsyncLineBuffer::consume_line: the buffer afterwards.
consume_line(b) ==
    IF b.line_break_idxs # << >>
    THEN LET n == Len(b.line_break_idxs)
             line_break_pos == b.line_break_idxs[n]
             line == Slice(b.buffer, b.start, line_break_pos + 1)
         IN [b EXCEPT !.line_break_idxs = SubSeq(b.line_break_idxs, 1, n - 1),
                      !.start = b.start + Len(line)]
    ELSE b

\* consume_line with an exclusive range: the line stops before the line
\* break.
consume_line_result_exclusive(b) ==
    IF b.line_break_idxs # << >>
    THEN LET line_break_pos == b.line_break_idxs[Len(b.line_break_idxs)]
         IN Some(Slice(b.buffer, b.start, line_break_pos))
    ELSE None

\* AsyncLineBuffer::consume_line: the line returned.
consume_line_result(b) ==
    IF b.line_break_idxs # << >>
    THEN LET line_break_pos == b.line_break_idxs[Len(b.line_break_idxs)]
         IN Some(Slice(b.buffer, b.start, line_break_pos + 1))
    ELSE None

\* consume_remaining that hands out the rest without advancing start.
consume_remaining_keeps_start(b) == b

\* AsyncLineBuffer::consume_remaining: the buffer afterwards.
consume_remaining(b) ==
    IF b.start >= b.end THEN b ELSE [b EXCEPT !.start = b.end]

\* AsyncLineBuffer::consume_remaining: the line returned.
consume_remaining_result(b) ==
    IF b.start >= b.end THEN None ELSE Some(Slice(b.buffer, b.start, b.end))

\* self.buffer.copy_within(from..to, 0)
copy_within(buffer, from, to) ==
    SubSeq(buffer, from + 1, to) \o SubSeq(buffer, to - from + 1, Len(buffer))

\* roll_to_front without the copy_within: the cursors move, the bytes do not.
roll_to_front_no_copy(b) ==
    IF b.start = b.end
    THEN [b EXCEPT !.start = 0, !.end = 0, !.line_break_idxs = << >>]
    ELSE IF b.start = 0
    THEN b
    ELSE [b EXCEPT
            !.end = b.end - b.start,
            !.line_break_idxs =
                [i \in 1..Len(b.line_break_idxs) |->
                    b.line_break_idxs[i] - b.start],
            !.start = 0]

\* AsyncLineBuffer::roll_to_front
roll_to_front(b) ==
    IF b.start = b.end
    THEN [b EXCEPT !.start = 0, !.end = 0, !.line_break_idxs = << >>]
    ELSE IF b.start = 0
    THEN b
    ELSE LET left_shift_len == b.start
         IN [b EXCEPT
               !.buffer = copy_within(b.buffer, b.start, b.end),
               !.end = b.end - left_shift_len,
               !.line_break_idxs =
                   [i \in 1..Len(b.line_break_idxs) |->
                       b.line_break_idxs[i] - left_shift_len],
               !.start = 0]

\* ------------------------------------------------------------------------
\* ReadStats (src/src/search.rs, mod stats).  The two Duration fields hold
\* wall-clock time, which the model does not measure, and are left out.
\* ------------------------------------------------------------------------

\* How many bytes must be checked to be reasonably sure the input is not binary.
BINARY_CHECK_LEN_BYTES == 512

\* ReadStats::default()
ReadStats_default ==
    [total_files_visited |-> 0,
     skipped_files_non_utf8 |-> 0,
     non_utf8_bytes_checked |-> 0,
     lines_matched_count |-> 0,
     lines_matched_bytes |-> 0,
     max_buffer_size |-> 0,
     buffers_created |-> 0]

\* ReadStats::fold_in, were max_buffer_size summed as the counters are.
fold_in_sums_buffer_size(self, other) ==
    [total_files_visited |-> self.total_files_visited + other.total_files_visited,
     skipped_files_non_utf8 |-> self.skipped_files_non_utf8 + other.skipped_files_non_utf8,
     non_utf8_bytes_checked |-> self.non_utf8_bytes_checked + other.non_utf8_bytes_checked,
     lines_matched_count |-> self.lines_matched_count + other.lines_matched_count,
     lines_matched_bytes |-> self.lines_matched_bytes + other.lines_matched_bytes,
     max_buffer_size |-> self.max_buffer_size + other.max_buffer_size,
     buffers_created |-> self.buffers_created + other.buffers_created]

\* ReadStats::fold_in
fold_in(self, other) ==
    [total_files_visited |-> self.total_files_visited + other.total_files_visited,
     skipped_files_non_utf8 |-> self.skipped_files_non_utf8 + other.skipped_files_non_utf8,
     non_utf8_bytes_checked |-> self.non_utf8_bytes_checked + other.non_utf8_bytes_checked,
     lines_matched_count |-> self.lines_matched_count + other.lines_matched_count,
     lines_matched_bytes |-> self.lines_matched_bytes + other.lines_matched_bytes,
     max_buffer_size |-> Max(self.max_buffer_size, other.max_buffer_size),
     buffers_created |-> self.buffers_created + other.buffers_created]

\* The locals of a search task that has not started.
NoTask ==
    [stats |-> ReadStats_default, binary_bytes_checked |-> 0, sent |-> << >>,
     returned |-> FALSE]

\* ------------------------------------------------------------------------
\* AsyncLineBufferReader over a byte source
\* ------------------------------------------------------------------------

VARIABLES
    source,       \* the bytes the reader R yields, in order
    rpos,         \* how many bytes of source R has yielded so far
    line_buffer,  \* AsyncLineBufferReader.line_buffer
    lines_read,   \* AsyncLineBufferReader.lines_read
    pc,           \* where read_line stands: "idle" between calls
    returned,     \* the LineResults read_line has returned Some of, in order
    nones,        \* how many calls of read_line have returned None
    last          \* what the last finished call returned

readerVars == <<source, rpos, line_buffer, lines_read, pc, returned, nones, last>>

\* The worker pool of src/src/walker_worker.rs and the tree it walks.  Paths
\* are numbered 1..Len(kind), the root is path 1, parent[p] is the directory
\* that lists p (0 for the root).
VARIABLES
    kind,          \* what each path is: "file", "dir", "unreadable" or "other"
    parent,        \* the directory each path is an entry of
    initial_count, \* the number of workers spawned
    visit_queue,   \* MessageQueue: the messages sent and not yet received
    work_pending,  \* the AtomicUsize the workers share
    worker,        \* where each worker's start_working stands
    handled,       \* how many times handle_work was called for each path
    saw_one        \* the workers whose fetch_sub returned 1 so far

crawlVars == <<kind, parent, initial_count, visit_queue, work_pending, worker,
               handled, saw_one>>

\* A printer (src/src/print/printer.rs, src/src/printer.rs) and the search
\* tasks that send to it.  Target names are numbered 1..MaxNames.
VARIABLES
    printer_impl,  \* "PrettyPrinter" (print/printer.rs) or "Printer" (printer.rs)
    config,        \* Config: print_line_num, group_by_target; and matcher.is_some()
    printer,       \* file_to_matches and currently_printing_file
    written,       \* what has been written to the writer, in order
    errors,        \* how many times a UTF-8 failure was reported with eprintln
    sent,          \* how many Printables each target's task has sent
    ended,         \* whether each target's task has sent EndOfReading
    bad_sent,      \* how many of the Printables sent held invalid UTF-8
    displays       \* how many Display messages have been sent

printVars == <<printer_impl, config, printer, written, errors, sent, ended, bad_sent,
               displays>>

\* One search task (Searcher::search_file and search_via_reader in
\* src/src/search.rs) reading through the line buffer reader above.
VARIABLES
    search_pc,     \* where the task is: "none", "open", "loop", "await", "returned"
    task           \* its locals: stats, binary_bytes_checked, sent, returned

taskVars == <<search_pc, task>>

\* One call of a Searcher's entry point (Searcher::search_1 or
\* Searcher::search in src/src/search.rs) on a list of targets.
VARIABLES
    entry,         \* the function called: "none", "search_1", "search" or
                   \* "search_directory"
    targets,       \* the targets passed, each with what the file system holds
    cursor,        \* the position in targets of the next target to drive
    agg_stats,     \* the local agg_stats
    error_paths,   \* the local error_paths
    result         \* what the call gave the caller

searchVars == <<entry, targets, cursor, agg_stats, error_paths, result>>

\* One AsyncLineBuffer (src/src/buffer/async_line_buffer.rs) whose
\* operations are called one after another in any order; the buffer is
\* line_buffer and its reader yields source.
VARIABLES
    op,            \* the operation called last: "none", "build", "fill", ...
                   \* "panic" once a call has panicked
    before         \* the buffer as it was when that operation was called

bufferVars == <<op, before>>

\* One BufferPool (src/src/buffer/buffer_pool.rs) and the tasks that share
\* it.  The pool never looks at the bytes of a buffer: a buffer is kept here
\* as [len, line_break_idxs, start, end], len the length of its Vec<u8>.
VARIABLES
    pool,          \* the Vec behind the Mutex: the idle buffers
    held,          \* the buffers handed out and not yet returned
    pool_op,       \* the last call: its name, its argument, the buffer returned
    ever_returned  \* whether return_to_pool has been called so far

poolVars == <<pool, held, pool_op, ever_returned>>

\* One Matcher (src/src/matcher.rs) asked about one byte slice.
VARIABLES
    matcher,       \* the matcher: DummyMatcher or a RegexMatcher as built
    bytes_given,   \* the slice passed as `bytes`
    is_match_out,  \* what is_match returned, once called
    find_matches_out  \* what find_matches returned, once called

matcherVars == <<matcher, bytes_given, is_match_out, find_matches_out>>

\* The threaded printer (src/src/print/threaded_printer.rs): the unbounded
\* channel of spawn_threaded, the Sender clones and the thread in listen.
VARIABLES
    channel,       \* the messages sent and not yet received, oldest first
    senders,       \* how many Sender clones are alive
    listen_pc,     \* where listen stands: "none", "recv" or "returned"
    delivered,     \* every message a Sender has sent so far, in order
    received,      \* every message the loop has passed to print, in order
    left_at_close  \* how many messages the channel held when the last
                   \* Sender was dropped

listenVars == <<channel, senders, listen_pc, delivered, received, left_at_close>>

\* Records of statistics folded into one another (ReadStats::fold_in in
\* src/src/search.rs) in any order and any grouping.
VARIABLES
    inputs,        \* the per-file records to fold, as given
    parts          \* the aggregates so far: at first the records themselves

foldVars == <<inputs, parts>>

\* The search tasks that send to the threaded printer (search_via_reader in
\* src/src/search.rs), each with a Sender of its own.
VARIABLES
    tasks_returned \* the targets whose search_via_reader has returned

tasksVars == <<tasks_returned>>

\* Searcher::search_directory (src/src/search.rs) and the tasks it spawns.
VARIABLES
    search_dir_pc, \* "none", "walk" (the loop over dir_stack), "fold" (the
                   \* loop over spawned) or "returned"
    spawned,       \* spawned_tasks: the targets a task was spawned for, in
                   \* order
    joined         \* how many of the spawned tasks have been awaited

joinVars == <<search_dir_pc, spawned, joined>>

\* Walker and Crawler (src/src/walker.rs) over the directory tree kind,
\* parent.
VARIABLES
    walker_pc,     \* "none"; "crawl" while the Walker's thread awaits the root
                   \* crawl; "finished" once it has sent Quit
    crawler,       \* per path, the Crawler made for it: where its crawl
                   \* stands, the entries not yet listed, the tasks spawned
    walker_sent    \* the WalkerMessages sent into the channel, in order

walkerVars == <<walker_pc, crawler, walker_sent>>

laterVars == <<tasksVars, joinVars, walkerVars>>

restVars == <<foldVars, laterVars>>

otherVars == <<bufferVars, poolVars, matcherVars, listenVars, restVars>>

vars == <<readerVars, crawlVars, printVars, taskVars, searchVars, otherVars>>

nonReaderVars == <<crawlVars, printVars, taskVars, searchVars, otherVars>>

nonCrawlVars == <<readerVars, printVars, taskVars, searchVars, otherVars>>

nonPrintVars == <<readerVars, crawlVars, taskVars, searchVars, otherVars>>

nonTaskVars == <<crawlVars, printVars, searchVars, otherVars>>

nonSearchVars == <<readerVars, crawlVars, printVars, taskVars, otherVars>>

\* LineResult::new(text, line_num)
LineResult(text, line_num) == [line_num |-> line_num, text |-> text]

\* The bytes one reader.read(buf) call can return into a buf of `room` bytes:
\* none at the end of the source, else any non-empty prefix of the rest that
\* fits.
ReadChoices(room) ==
    IF rpos = Len(source)
    THEN {<< >>}
    ELSE {Slice(source, rpos, rpos + n) : n \in 1..Min(room, Len(source) - rpos)}

\* read_line, lines 277-278: count the call.
read_line_begin ==
    /\ pc = "idle"
    /\ lines_read' = lines_read + 1
    /\ pc' = "while"
    /\ UNCHANGED <<source, rpos, line_buffer, returned, nones, last>>

\* A caller that does nothing but read calls read_line.
read_line_enter ==
    /\ nones < MaxNoneReads
    /\ read_line_begin
    /\ UNCHANGED nonReaderVars

\* read_line, lines 280-281: no line is buffered, roll the rest to the front.
read_line_roll ==
    /\ pc = "while"
    /\ ~has_line(line_buffer)
    /\ line_buffer' = roll_to_front(line_buffer)
    /\ pc' = "fill"
    /\ UNCHANGED <<source, rpos, lines_read, returned, nones, last, nonReaderVars>>

\* read_line, lines 283-284: one fill; an empty read leads to
\* consume_remaining, any other read back to the loop condition.
read_line_fill ==
    /\ pc = "fill"
    /\ \E read \in ReadChoices(writable_len(ensure_capacity(line_buffer))) :
          /\ line_buffer' = fill(line_buffer, read)
          /\ rpos' = rpos + Len(read)
          /\ pc' = IF Len(read) # 0 THEN "while" ELSE "remaining"
    /\ UNCHANGED <<source, lines_read, returned, nones, last, nonReaderVars>>

\* What a call that ends with the Option `line` leaves behind.
Return(line) ==
    /\ pc' = "idle"
    /\ last' = line
    /\ returned' = IF line.some
                   THEN Append(returned, LineResult(line.text, lines_read))
                   ELSE returned
    /\ nones' = IF line.some THEN nones ELSE nones + 1

\* read_line, lines 287-289: the source is exhausted.
read_line_remaining ==
    /\ pc = "remaining"
    /\ line_buffer' = consume_remaining(line_buffer)
    /\ Return(consume_remaining_result(line_buffer))
    /\ UNCHANGED <<source, rpos, lines_read, nonReaderVars>>

\* read_line, lines 296-297: a full line is buffered.
read_line_consume ==
    /\ pc = "while"
    /\ has_line(line_buffer)
    /\ line_buffer' = consume_line(line_buffer)
    /\ Return(consume_line_result(line_buffer))
    /\ UNCHANGED <<source, rpos, lines_read, nonReaderVars>>

\* No search task: the state of the task while another component runs.
TaskIdle ==
    /\ search_pc = "none"
    /\ task = NoTask

\* The caller has not been given anything.
NoResult == [type |-> "none", stats |-> ReadStats_default, paths |-> << >>]

\* No call of the Searcher: the state of the call while another component
\* runs.
SearchIdle ==
    /\ entry = "none"
    /\ targets = << >>
    /\ cursor = 1
    /\ agg_stats = ReadStats_default
    /\ error_paths = << >>
    /\ result = NoResult

\* A call of find_matches that has not been made.
NotCalled == [done |-> FALSE, value |-> << >>]

\* A call of is_match that has not been made.
NotAsked == [done |-> FALSE, value |-> FALSE]

\* No call of the pool.
NoCall == [name |-> "none", size_hint |-> 0,
           buf |-> [len |-> 0, line_break_idxs |-> << >>, start |-> 0, end |-> 0]]

\* No buffer operated on its own: the state while another component runs.
BufferIdle ==
    /\ op = "none"
    /\ before = build(0)

\* No buffer pool: the state of the pool while another component runs.
PoolIdle ==
    /\ pool = << >>
    /\ held = << >>
    /\ pool_op = NoCall
    /\ ever_returned = FALSE

\* No matcher asked: the state while another component runs.
MatcherIdle ==
    /\ matcher = [type |-> "none"]
    /\ bytes_given = << >>
    /\ is_match_out = NotAsked
    /\ find_matches_out = NotCalled

\* No threaded printer spawned: the state while another component runs.
ListenIdle ==
    /\ channel = << >>
    /\ senders = 0
    /\ listen_pc = "none"
    /\ delivered = << >>
    /\ received = << >>
    /\ left_at_close = 0

\* Nothing folded: the state while another component runs.
FoldIdle ==
    /\ inputs = << >>
    /\ parts = << >>

\* No search task sends to a threaded printer.
TasksIdle == tasks_returned = {}

\* No search_directory with tasks of its own.
JoinIdle ==
    /\ search_dir_pc = "none"
    /\ spawned = << >>
    /\ joined = 0

\* No Walker.
WalkerIdle ==
    /\ walker_pc = "none"
    /\ crawler = << >>
    /\ walker_sent = << >>

LaterIdle == TasksIdle /\ JoinIdle /\ WalkerIdle

RestIdle == FoldIdle /\ LaterIdle

OthersIdle == BufferIdle /\ PoolIdle /\ MatcherIdle /\ ListenIdle /\ RestIdle

\* No worker pool: the state of the crawl while another component runs.
CrawlIdle ==
    /\ kind = << >>
    /\ parent = << >>
    /\ initial_count = 0
    /\ visit_queue = << >>
    /\ work_pending = 0
    /\ worker = << >>
    /\ handled = << >>
    /\ saw_one = {}

\* No reader: the state of the line buffer reader while another component
\* runs.
ReaderIdle ==
    /\ source = << >>
    /\ rpos = 0
    /\ line_buffer = build(0)
    /\ lines_read = 0
    /\ pc = "idle"
    /\ returned = << >>
    /\ nones = 0
    /\ last = None

\* No printer: the state of the printer while another component runs.
PrintIdle ==
    /\ printer_impl = "PrettyPrinter"
    /\ config = [print_line_num |-> TRUE, group_by_target |-> TRUE, matcher |-> FALSE]
    /\ printer = [file_to_matches |-> << >>, currently_printing_file |-> 0]
    /\ written = << >>
    /\ errors = 0
    /\ sent = << >>
    /\ ended = << >>
    /\ bad_sent = 0
    /\ displays = 0

\* AsyncLineBufferReader::new over a source and a freshly built buffer.
LineInit ==
    /\ OthersIdle
    /\ CrawlIdle
    /\ PrintIdle
    /\ TaskIdle
    /\ SearchIdle
    /\ source \in BoundedSeq(Bytes, MaxLen)
    /\ rpos = 0
    /\ \E start_size_bytes \in 0..MaxStartSize :
          line_buffer = build(start_size_bytes)
    /\ lines_read = 0
    /\ pc = "idle"
    /\ returned = << >>
    /\ nones = 0
    /\ last = None

LineNext ==
    \/ read_line_enter
    \/ read_line_roll
    \/ read_line_fill
    \/ read_line_remaining
    \/ read_line_consume

\* A caller that calls read_line again and again, as the tests of
\* async_line_buffer.rs do.
LineSpec == LineInit /\ [][LineNext]_vars

\* ------------------------------------------------------------------------
\* WalkerWorker and WorkerPool (src/src/walker_worker.rs)
\* ------------------------------------------------------------------------

Paths == 1..Len(kind)

Workers == 1..initial_count

\* WorkMessage::Visit(path)
Visit(path) == [type |-> "Visit", path |-> path]

\* WorkMessage::Quit
Quit == [type |-> "Quit", path |-> 0]

\* The entries path.read_dir() lists.
Children(path) == {c \in Paths : parent[c] = path}

\* AtomicUsize::fetch_sub(1): the new value; 0 - 1 wraps to usize::MAX,
\* written -1 here (no count of the model is negative otherwise).
fetch_sub_1(count) == IF count = 0 THEN -1 ELSE count - 1

\* A worker's place in start_working: `at` names the next statement, `path`
\* the message being visited, `todo` the entries dir_stream has not yielded
\* yet and `child` the entry counted and not yet pushed.
WorkerAt(at, path, todo, child) ==
    [at |-> at, path |-> path, todo |-> todo, child |-> child]

\* A worker that returns when try_pop_message finds the queue empty.
worker_quits_on_empty(w) ==
    /\ worker[w].at = "pop"
    /\ visit_queue = << >>
    /\ worker' = [worker EXCEPT ![w].at = "returned"]
    /\ UNCHANGED <<saw_one, kind, parent, initial_count, visit_queue, work_pending, handled, nonCrawlVars>>

\* start_working, lines 76-81: try_pop_message finds the queue empty, the
\* worker yields and tries again.
worker_yield(w) ==
    /\ worker[w].at = "pop"
    /\ visit_queue = << >>
    /\ UNCHANGED <<crawlVars, nonCrawlVars>>

\* start_working, lines 76 and 83: try_pop_message takes the next message.
worker_pop(w) ==
    /\ worker[w].at = "pop"
    /\ visit_queue # << >>
    /\ visit_queue' = Tail(visit_queue)
    /\ worker' = [worker EXCEPT ![w] =
          IF Head(visit_queue).type = "Visit"
          THEN WorkerAt("visit", Head(visit_queue).path, {}, 0)
          ELSE WorkerAt("forward_quit", 0, {}, 0)]
    /\ UNCHANGED <<saw_one, kind, parent, initial_count, work_pending, handled, nonCrawlVars>>

\* start_working, lines 85-86: the path is a file, the handler works on it.
worker_handle_file(w) ==
    /\ worker[w].at = "visit"
    /\ kind[worker[w].path] = "file"
    /\ handled' = [handled EXCEPT ![worker[w].path] = @ + 1]
    /\ worker' = [worker EXCEPT ![w].at = "decrement"]
    /\ UNCHANGED <<saw_one, kind, parent, initial_count, visit_queue, work_pending, nonCrawlVars>>

\* start_working, lines 87-90: the path is a directory and read_dir lists it;
\* with no entry the while loop is over at once.
worker_read_dir(w) ==
    /\ worker[w].at = "visit"
    /\ kind[worker[w].path] = "dir"
    /\ worker' = [worker EXCEPT ![w] =
          IF Children(worker[w].path) = {}
          THEN WorkerAt("decrement", worker[w].path, {}, 0)
          ELSE WorkerAt("count_child", worker[w].path, Children(worker[w].path), 0)]
    /\ UNCHANGED <<saw_one, kind, parent, initial_count, visit_queue, work_pending, handled, nonCrawlVars>>

\* start_working, line 88: the path is a directory that cannot be read;
\* read_dir returns Err and unwrap panics.  The worker's task ends there:
\* it does not reach fetch_sub.
worker_read_dir_panic(w) ==
    /\ worker[w].at = "visit"
    /\ kind[worker[w].path] = "unreadable"
    /\ worker' = [worker EXCEPT ![w].at = "panicked"]
    /\ UNCHANGED <<saw_one, kind, parent, initial_count, visit_queue, work_pending, handled, nonCrawlVars>>

\* start_working, lines 85-95: the path is neither a file nor a directory.
worker_skip(w) ==
    /\ worker[w].at = "visit"
    /\ kind[worker[w].path] = "other"
    /\ worker' = [worker EXCEPT ![w].at = "decrement"]
    /\ UNCHANGED <<saw_one, kind, parent, initial_count, visit_queue, work_pending, handled, nonCrawlVars>>

\* worker_count_child without the fetch_add: the entry is pushed uncounted.
worker_count_child_no_add(w) ==
    /\ worker[w].at = "count_child"
    /\ \E c \in worker[w].todo :
          worker' = [worker EXCEPT ![w] =
              WorkerAt("push_child", worker[w].path, worker[w].todo \ {c}, c)]
    /\ UNCHANGED <<saw_one, kind, parent, initial_count, visit_queue, work_pending, handled, nonCrawlVars>>

\* start_working, lines 90-91: dir_stream yields an entry (in any order) and
\* fetch_add counts it.
worker_count_child(w) ==
    /\ worker[w].at = "count_child"
    /\ \E c \in worker[w].todo :
          worker' = [worker EXCEPT ![w] =
              WorkerAt("push_child", worker[w].path, worker[w].todo \ {c}, c)]
    /\ work_pending' = work_pending + 1
    /\ UNCHANGED <<saw_one, kind, parent, initial_count, visit_queue, handled, nonCrawlVars>>

\* start_working, lines 92-93: the counted entry is pushed to the queue.
worker_push_child(w) ==
    /\ worker[w].at = "push_child"
    /\ visit_queue' = Append(visit_queue, Visit(worker[w].child))
    /\ worker' = [worker EXCEPT ![w] =
          WorkerAt(IF worker[w].todo = {} THEN "decrement" ELSE "count_child",
                   worker[w].path, worker[w].todo, 0)]
    /\ UNCHANGED <<saw_one, kind, parent, initial_count, work_pending, handled, nonCrawlVars>>

\* start_working, lines 97-99: fetch_sub retires the visited path; the worker
\* that saw 1 goes on to shut the pool down.
worker_decrement(w) ==
    /\ worker[w].at = "decrement"
    /\ LET prev_val == work_pending
       IN /\ work_pending' = fetch_sub_1(work_pending)
          /\ worker' = [worker EXCEPT ![w] =
                WorkerAt(IF prev_val = 1 THEN "push_quit" ELSE "pop", 0, {}, 0)]
          /\ saw_one' = IF prev_val = 1 THEN saw_one \cup {w} ELSE saw_one
    /\ UNCHANGED <<kind, parent, initial_count, visit_queue, handled, nonCrawlVars>>

\* start_working, lines 101-102: the worker that brought the count to 0
\* pushes Quit and returns.
worker_push_quit(w) ==
    /\ worker[w].at = "push_quit"
    /\ visit_queue' = Append(visit_queue, Quit)
    /\ worker' = [worker EXCEPT ![w].at = "returned"]
    /\ UNCHANGED <<saw_one, kind, parent, initial_count, work_pending, handled, nonCrawlVars>>

\* start_working, lines 105-107: a worker that received Quit pushes it again
\* for the next worker and returns.
worker_forward_quit(w) ==
    /\ worker[w].at = "forward_quit"
    /\ visit_queue' = Append(visit_queue, Quit)
    /\ worker' = [worker EXCEPT ![w].at = "returned"]
    /\ UNCHANGED <<saw_one, kind, parent, initial_count, work_pending, handled, nonCrawlVars>>

\* One step of worker w, if the pool has a worker w.
WorkerStep(w) ==
    /\ w \in Workers
    /\ \/ worker_yield(w)
       \/ worker_pop(w)
       \/ worker_handle_file(w)
       \/ worker_read_dir(w)
       \/ worker_read_dir_panic(w)
       \/ worker_skip(w)
       \/ worker_count_child(w)
       \/ worker_push_child(w)
       \/ worker_decrement(w)
       \/ worker_push_quit(w)
       \/ worker_forward_quit(w)

\* The directory trees of at most MaxNodes paths: every path but the root is
\* an entry of an earlier path that is a directory, readable or not.
Kinds == {"file", "dir", "unreadable", "other"}

IsTree(k, p) ==
    /\ p[1] = 0
    /\ \A c \in 2..Len(k) :
          /\ p[c] \in 1..(c - 1)
          /\ k[p[c]] \in {"dir", "unreadable"}

\* WorkerPool::spawn with the count started at 0, the queued root not
\* counted.
CrawlInit_root_not_counted ==
    /\ OthersIdle
    /\ ReaderIdle
    /\ PrintIdle
    /\ TaskIdle
    /\ SearchIdle
    /\ \E n \in 1..MaxNodes :
          /\ kind \in [1..n -> Kinds]
          /\ parent \in [1..n -> 0..(n - 1)]
          /\ handled = [p \in 1..n |-> 0]
    /\ IsTree(kind, parent)
    /\ initial_count \in 1..MaxWorkers
    /\ visit_queue = <<Visit(1)>>
    /\ work_pending = 0
    /\ worker = [w \in 1..initial_count |-> WorkerAt("pop", 0, {}, 0)]
    /\ saw_one = {}

\* WorkerPool::spawn(handler, path, initial_count), lines 119-140: the root is
\* queued, the count starts at 1 and initial_count workers are spawned.
CrawlInit ==
    /\ OthersIdle
    /\ ReaderIdle
    /\ PrintIdle
    /\ TaskIdle
    /\ SearchIdle
    /\ \E n \in 1..MaxNodes :
          /\ kind \in [1..n -> Kinds]
          /\ parent \in [1..n -> 0..(n - 1)]
          /\ handled = [p \in 1..n |-> 0]
    /\ IsTree(kind, parent)
    /\ initial_count \in 1..MaxWorkers
    /\ visit_queue = <<Visit(1)>>
    /\ work_pending = 1
    /\ worker = [w \in 1..initial_count |-> WorkerAt("pop", 0, {}, 0)]
    /\ saw_one = {}

CrawlNext ==
    \/ \E w \in Workers : worker_yield(w)
    \/ \E w \in Workers : worker_pop(w)
    \/ \E w \in Workers : worker_handle_file(w)
    \/ \E w \in Workers : worker_read_dir(w)
    \/ \E w \in Workers : worker_read_dir_panic(w)
    \/ \E w \in Workers : worker_skip(w)
    \/ \E w \in Workers : worker_count_child(w)
    \/ \E w \in Workers : worker_push_child(w)
    \/ \E w \in Workers : worker_decrement(w)
    \/ \E w \in Workers : worker_push_quit(w)
    \/ \E w \in Workers : worker_forward_quit(w)

CrawlSpec == CrawlInit /\ [][CrawlNext]_vars

\* The workers are tasks of the async_std executor, and a worker that finds
\* the queue empty yields: every worker that can take a step eventually
\* takes one.
CrawlFairSpec == CrawlSpec /\ \A w \in 1..MaxWorkers : WF_vars(WorkerStep(w))

\* ------------------------------------------------------------------------
\* The printers: PrettyPrinter (src/src/print/printer.rs) and
\* pretty_printer::Printer (src/src/printer.rs)
\*
\* A print state is a record [file_to_matches, currently_printing_file,
\* written, errors]; a key absent from the HashMap file_to_matches is the
\* empty sequence, and currently_printing_file is 0 for None.
\* ------------------------------------------------------------------------

Targets == 1..MaxNames

\* PrintableResult::new(target_name, line_num, text)
PrintableResult(target_name, line_num, text) ==
    [target_name |-> target_name, line_num |-> line_num, text |-> text]

\* PrintMessage::Printable(printable)
Printable(printable) ==
    [type |-> "Printable", target_name |-> printable.target_name, printable |-> printable]

\* PrintMessage::EndOfReading { target_name }
EndOfReading(target_name) ==
    [type |-> "EndOfReading", target_name |-> target_name,
     printable |-> PrintableResult(target_name, 0, << >>)]

\* PrintMessage::Display(msg); the text is not modelled.
Display ==
    [type |-> "Display", target_name |-> 0, printable |-> PrintableResult(0, 0, << >>)]

\* What print!("{}", msg) writes for a Display message.
Displayed ==
    [type |-> "display", target_name |-> 0, line_num |-> 0, segments |-> << >>]

\* What writeln!(writer, "\n{}", name) writes: the header of a target.
Header(name) ==
    [type |-> "header", target_name |-> name, line_num |-> 0, segments |-> << >>]

\* What rendering one line writes: the line number chunk (0 when line
\* numbers are off) and the segments of the text written after it.
Line(name, line_num, segments) ==
    [type |-> "line", target_name |-> name, line_num |-> line_num,
     segments |-> segments]

Segment(color, bytes) == [color |-> color, bytes |-> bytes]

\* print_colorized, lines 141-176: the segments of text from offset start
\* on, split at the match ranges; a segment that is not valid UTF-8 is not
\* written.
RECURSIVE colorized(_, _, _)
colorized(text, ranges, start) ==
    IF ranges = << >>
    THEN LET remainder == Slice(text, start, Len(text))
         IN IF check_utf8(remainder) THEN <<Segment("default", remainder)>> ELSE << >>
    ELSE LET match_range == Head(ranges)
             until_match == Slice(text, start, match_range.start)
             during_match == Slice(text, match_range.start, match_range.stop)
         IN (IF check_utf8(until_match) THEN <<Segment("default", until_match)>> ELSE << >>)
            \o (IF check_utf8(during_match) THEN <<Segment("red", during_match)>> ELSE << >>)
            \o colorized(text, Tail(ranges), match_range.stop)

\* print_colorized: how many segments failed to parse and were reported with
\* eprintln.
RECURSIVE colorized_errors(_, _, _)
colorized_errors(text, ranges, start) ==
    IF ranges = << >>
    THEN IF check_utf8(Slice(text, start, Len(text))) THEN 0 ELSE 1
    ELSE LET match_range == Head(ranges)
         IN (IF check_utf8(Slice(text, start, match_range.start)) THEN 0 ELSE 1)
            + (IF check_utf8(Slice(text, match_range.start, match_range.stop)) THEN 0 ELSE 1)
            + colorized_errors(text, Tail(ranges), match_range.stop)

\* print_colorized, were the loop to set start to the start of the match
\* and not to its end.
print_colorized_from_match_start(text, ranges) ==
    LET RECURSIVE split(_, _)
        split(rs, start) ==
            IF rs = << >>
            THEN LET remainder == Slice(text, start, Len(text))
                 IN IF check_utf8(remainder)
                    THEN <<Segment("default", remainder)>> ELSE << >>
            ELSE LET until_match == Slice(text, start, Head(rs).start)
                     during_match == Slice(text, Head(rs).start, Head(rs).stop)
                 IN (IF check_utf8(until_match)
                     THEN <<Segment("default", until_match)>> ELSE << >>)
                    \o (IF check_utf8(during_match)
                        THEN <<Segment("red", during_match)>> ELSE << >>)
                    \o split(Tail(rs), Head(rs).start)
    IN split(ranges, 0)

\* print_colorized, lines 141-176: what is written after the line number
\* chunk, start being 0 before the loop.
print_colorized(text, ranges) == colorized(text, ranges, 0)

\* print_line_result: Ok(()) or Err; without a matcher text_as_string fails on
\* invalid UTF-8 before anything is written.
print_line_result_ok(cfg, printable) ==
    cfg.matcher \/ check_utf8(printable.text)

\* print_line_result: the print state afterwards.
print_line_result(cfg, ps, printable) ==
    LET line_num == IF cfg.print_line_num THEN printable.line_num ELSE 0
    IN IF cfg.matcher
       THEN [ps EXCEPT
               !.written = Append(@, Line(printable.target_name, line_num,
                                print_colorized(printable.text,
                                                find_matches(printable.text)))),
               !.errors = @ + colorized_errors(printable.text,
                                find_matches(printable.text), 0)]
       ELSE IF check_utf8(printable.text)
       THEN [ps EXCEPT
               !.written = Append(@, Line(printable.target_name, line_num,
                                <<Segment("default", printable.text)>>))]
       ELSE ps

\* print_target_results, lines 89-91: the for loop over the removed lines; the
\* ? operator leaves the loop at the first line that fails.
RECURSIVE print_each(_, _, _)
print_each(cfg, ps, matches_for_target) ==
    IF matches_for_target = << >>
    THEN ps
    ELSE IF print_line_result_ok(cfg, Head(matches_for_target))
         THEN print_each(cfg, print_line_result(cfg, ps, Head(matches_for_target)),
                         Tail(matches_for_target))
         ELSE ps

\* print_target_results, were the loop to take the buffered lines of the
\* target newest first.
print_target_results_newest_first(cfg, ps, name) ==
    LET buffered == ps.file_to_matches[name]
        matches_for_target ==
            [i \in 1..Len(buffered) |-> buffered[Len(buffered) + 1 - i]]
        removed == [ps EXCEPT !.file_to_matches[name] = << >>]
    IN IF matches_for_target = << >>
       THEN removed
       ELSE print_each(cfg, [removed EXCEPT !.written = Append(@, Header(name))],
                       matches_for_target)

\* print_target_results
print_target_results(cfg, ps, name) ==
    LET matches_for_target == ps.file_to_matches[name]
        removed == [ps EXCEPT !.file_to_matches[name] = << >>]
    IN IF matches_for_target = << >>
       THEN removed
       ELSE print_each(cfg, [removed EXCEPT !.written = Append(@, Header(name))],
                       matches_for_target)

\* PrettyPrinter::print (src/src/print/printer.rs), the message is a Printable
\* or an EndOfReading.
PrettyPrinter_print(cfg, ps, message) ==
    IF cfg.group_by_target
    THEN IF message.type = "Display"
         THEN [ps EXCEPT !.written = Append(@, Displayed)]
         ELSE IF message.type = "Printable"
         THEN LET printable == message.printable
                  first == IF ps.currently_printing_file = 0
                           THEN print_target_results(cfg,
                                    [ps EXCEPT !.currently_printing_file =
                                                   printable.target_name],
                                    printable.target_name)
                           ELSE ps
              IN IF printable.target_name = first.currently_printing_file
                 THEN print_line_result(cfg, first, printable)
                 ELSE [first EXCEPT !.file_to_matches[printable.target_name] =
                                        Append(@, printable)]
         ELSE IF message.target_name = ps.currently_printing_file
              THEN [ps EXCEPT !.currently_printing_file = 0]
              ELSE print_target_results(cfg, ps, message.target_name)
    ELSE IF message.type = "Printable"
         THEN print_line_result(cfg, ps, message.printable)
         ELSE ps

\* pretty_printer::Printer::print (src/src/printer.rs)
Printer_print(cfg, ps, message) ==
    IF cfg.group_by_target
    THEN IF message.type = "Display"
         THEN [ps EXCEPT !.written = Append(@, Displayed)]
         ELSE IF message.type = "Printable"
         THEN [ps EXCEPT !.file_to_matches[message.target_name] =
                             Append(@, message.printable)]
         ELSE print_target_results(cfg, ps, message.target_name)
    ELSE IF message.type = "Printable"
         THEN print_line_result(cfg, ps, message.printable)
         ELSE ps

\* The print state the variables hold.
PrintState ==
    [file_to_matches |-> printer.file_to_matches,
     currently_printing_file |-> printer.currently_printing_file,
     written |-> written,
     errors |-> errors]

\* BlockingSender::send: the printer is locked and prints the message.
Send(message) ==
    LET ps == IF printer_impl = "PrettyPrinter"
              THEN PrettyPrinter_print(config, PrintState, message)
              ELSE Printer_print(config, PrintState, message)
    IN /\ printer' = [file_to_matches |-> ps.file_to_matches,
                      currently_printing_file |-> ps.currently_printing_file]
       /\ written' = ps.written
       /\ errors' = ps.errors

\* The texts of the lines sent to the printer: a matching line that is valid
\* UTF-8 and one that is not.
GoodText == <<97, LINE_BREAK>>

BadText == <<97, 195, LINE_BREAK>>

MessagesSent == LET RECURSIVE Sum(_)
                    Sum(t) == IF t = 0 THEN displays
                              ELSE sent[t] + (IF ended[t] THEN 1 ELSE 0) + Sum(t - 1)
                IN Sum(MaxNames)

\* search_via_reader, line 229: the task of target t sends the Printable of
\* its next matching line.
send_printable(t) ==
    /\ ~ended[t]
    /\ MessagesSent < MaxMessages
    /\ \E text \in {GoodText} \cup (IF bad_sent < MaxBadLines THEN {BadText} ELSE {}) :
          /\ Send(Printable(PrintableResult(t, sent[t] + 1, text)))
          /\ bad_sent' = bad_sent + (IF text = BadText THEN 1 ELSE 0)
    /\ sent' = [sent EXCEPT ![t] = @ + 1]
    /\ UNCHANGED <<printer_impl, config, ended, displays, nonPrintVars>>

\* search_via_reader, line 233: the task of target t sends EndOfReading.
send_end_of_reading(t) ==
    /\ ~ended[t]
    /\ MessagesSent < MaxMessages
    /\ Send(EndOfReading(t))
    /\ ended' = [ended EXCEPT ![t] = TRUE]
    /\ UNCHANGED <<printer_impl, config, sent, bad_sent, displays, nonPrintVars>>

\* A Display message is sent.
send_display ==
    /\ MessagesSent < MaxMessages
    /\ Send(Display)
    /\ displays' = displays + 1
    /\ UNCHANGED <<printer_impl, config, sent, ended, bad_sent, nonPrintVars>>

\* Printer::new with group_by_target and with_matcher as the caller sets
\* them, built as either printer.
PrintInit ==
    /\ OthersIdle
    /\ ReaderIdle
    /\ CrawlIdle
    /\ TaskIdle
    /\ SearchIdle
    /\ printer_impl \in {"PrettyPrinter", "Printer"}
    /\ config \in [print_line_num : {TRUE}, group_by_target : BOOLEAN, matcher : BOOLEAN]
    /\ printer = [file_to_matches |-> [t \in Targets |-> << >>],
                  currently_printing_file |-> 0]
    /\ written = << >>
    /\ errors = 0
    /\ sent = [t \in Targets |-> 0]
    /\ ended = [t \in Targets |-> FALSE]
    /\ bad_sent = 0
    /\ displays = 0

PrintNext ==
    \/ \E t \in Targets : send_printable(t)
    \/ \E t \in Targets : send_end_of_reading(t)
    \/ send_display

\* Search tasks of several targets sending to one printer in any order.
PrintSpec == PrintInit /\ [][PrintNext]_vars

\* ------------------------------------------------------------------------
\* The threaded printer: Printer::spawn_threaded (src/src/print.rs) and
\* Printer::listen (src/src/print/threaded_printer.rs).  The channel is
\* crossbeam's unbounded(): send never blocks, recv blocks while the channel
\* is empty and a Sender is alive, and fails once it is empty and every
\* Sender has been dropped.
\* ------------------------------------------------------------------------

\* The most Sender clones alive at once.
MaxSenders == 2

\* Sender::clone (derived, threaded_printer.rs line 8): a task is given its
\* own Sender.
sender_clone ==
    /\ listen_pc # "none"
    /\ senders \in 1..(MaxSenders - 1)
    /\ senders' = senders + 1
    /\ UNCHANGED <<channel, listen_pc, delivered, received, left_at_close>>
    /\ UNCHANGED <<readerVars, crawlVars, printVars, taskVars, searchVars,
                   bufferVars, poolVars, matcherVars, restVars>>

\* The messages that may be sent next, one target being searched: the
\* Printable of its next line, its EndOfReading, or a Display.
NextMessages ==
    {Printable(PrintableResult(t, sent[t] + 1, GoodText)) : t \in {u \in {1} : ~ended[u]}}
    \cup {EndOfReading(t) : t \in {u \in {1} : ~ended[u]}}
    \cup {Display}

\* Sender::send, lines 20-22: the message is put into the channel.
sender_send ==
    /\ listen_pc # "none"
    /\ senders > 0
    /\ MessagesSent < MaxMessages
    /\ \E message \in NextMessages :
          /\ channel' = Append(channel, message)
          /\ delivered' = Append(delivered, message)
          /\ sent' = IF message.type = "Printable"
                     THEN [sent EXCEPT ![message.printable.target_name] = @ + 1]
                     ELSE sent
          /\ ended' = IF message.type = "EndOfReading"
                      THEN [ended EXCEPT ![message.target_name] = TRUE]
                      ELSE ended
          /\ displays' = displays + (IF message.type = "Display" THEN 1 ELSE 0)
    /\ UNCHANGED <<senders, listen_pc, received, left_at_close>>
    /\ UNCHANGED <<printer_impl, config, printer, written, errors, bad_sent>>
    /\ UNCHANGED <<readerVars, crawlVars, taskVars, searchVars,
                   bufferVars, poolVars, matcherVars, restVars>>

\* A Sender is dropped: its task has finished, or the caller lets go of the
\* one spawn_threaded returned.
sender_drop ==
    /\ listen_pc # "none"
    /\ senders > 0
    /\ senders' = senders - 1
    /\ left_at_close' = IF senders = 1 THEN Len(channel) ELSE left_at_close
    /\ UNCHANGED <<channel, listen_pc, delivered, received>>
    /\ UNCHANGED <<readerVars, crawlVars, printVars, taskVars, searchVars,
                   bufferVars, poolVars, matcherVars, restVars>>

\* listen, lines 53-60: recv gives Ok(message), the oldest message of the
\* channel, and the body of the loop prints it.
listen_recv ==
    /\ listen_pc = "recv"
    /\ channel # << >>
    /\ Send(Head(channel))
    /\ channel' = Tail(channel)
    /\ received' = Append(received, Head(channel))
    /\ UNCHANGED <<senders, listen_pc, delivered, left_at_close>>
    /\ UNCHANGED <<printer_impl, config, sent, ended, bad_sent, displays>>
    /\ UNCHANGED <<readerVars, crawlVars, taskVars, searchVars,
                   bufferVars, poolVars, matcherVars, restVars>>

\* listen, were it to leave the loop as soon as the channel is empty, as
\* with try_recv.
listen_return_when_empty ==
    /\ listen_pc = "recv"
    /\ channel = << >>
    /\ listen_pc' = "returned"
    /\ UNCHANGED <<channel, senders, delivered, received, left_at_close>>
    /\ UNCHANGED <<readerVars, crawlVars, printVars, taskVars, searchVars,
                   bufferVars, poolVars, matcherVars, restVars>>

\* listen, lines 53 and 62-63: recv gives Err, the channel being empty with
\* every Sender dropped; the loop ends and listen returns.
listen_return ==
    /\ listen_pc = "recv"
    /\ channel = << >>
    /\ senders = 0
    /\ listen_pc' = "returned"
    /\ UNCHANGED <<channel, senders, delivered, received, left_at_close>>
    /\ UNCHANGED <<readerVars, crawlVars, printVars, taskVars, searchVars,
                   bufferVars, poolVars, matcherVars, restVars>>

\* spawn_threaded, lines 105-112: the channel is made, one Sender is handed
\* to the caller and the thread running listen is spawned.
ListenInit ==
    /\ BufferIdle
    /\ PoolIdle
    /\ MatcherIdle
    /\ RestIdle
    /\ ReaderIdle
    /\ CrawlIdle
    /\ TaskIdle
    /\ SearchIdle
    /\ printer_impl = "PrettyPrinter"
    /\ config \in [print_line_num : {TRUE}, group_by_target : BOOLEAN, matcher : BOOLEAN]
    /\ printer = [file_to_matches |-> [t \in Targets |-> << >>],
                  currently_printing_file |-> 0]
    /\ written = << >>
    /\ errors = 0
    /\ sent = [t \in Targets |-> 0]
    /\ ended = [t \in Targets |-> FALSE]
    /\ bad_sent = 0
    /\ displays = 0
    /\ channel = << >>
    /\ senders = 1
    /\ listen_pc = "recv"
    /\ delivered = << >>
    /\ received = << >>
    /\ left_at_close = 0

ListenNext ==
    \/ sender_clone
    \/ sender_send
    \/ sender_drop
    \/ listen_recv
    \/ listen_return

\* The printer's thread is an operating system thread of its own
\* (thread::spawn, print.rs line 111): it runs whenever recv can return.
ListenSpec ==
    /\ ListenInit
    /\ [][ListenNext]_vars
    /\ WF_vars(listen_recv)
    /\ WF_vars(listen_return)

\* ------------------------------------------------------------------------
\* Search tasks of several targets sending to the threaded printer: what
\* search_via_reader (src/src/search.rs, lines 210-235) sends through its
\* Sender, and where it lets go of it.
\* ------------------------------------------------------------------------

\* search_via_reader, lines 220-230: a line of target t matches and its
\* Printable is sent.
task_send_printable(t) ==
    /\ listen_pc # "none"
    /\ t \notin tasks_returned
    /\ MessagesSent < MaxMessages
    /\ LET message == Printable(PrintableResult(t, sent[t] + 1, GoodText))
       IN /\ channel' = Append(channel, message)
          /\ delivered' = Append(delivered, message)
    /\ sent' = [sent EXCEPT ![t] = @ + 1]
    /\ UNCHANGED <<senders, listen_pc, received, left_at_close, foldVars,
                   tasks_returned, joinVars, walkerVars>>
    /\ UNCHANGED <<printer_impl, config, printer, written, errors, ended, bad_sent,
                   displays>>
    /\ UNCHANGED <<readerVars, crawlVars, taskVars, searchVars,
                   bufferVars, poolVars, matcherVars>>

\* search_via_reader, lines 233-241: the source is read to its end,
\* EndOfReading is sent, the Sender is dropped and the function returns.
task_end_of_reading(t) ==
    /\ listen_pc # "none"
    /\ t \notin tasks_returned
    /\ channel' = Append(channel, EndOfReading(t))
    /\ delivered' = Append(delivered, EndOfReading(t))
    /\ ended' = [ended EXCEPT ![t] = TRUE]
    /\ senders' = senders - 1
    /\ left_at_close' = IF senders = 1 THEN Len(channel') ELSE left_at_close
    /\ tasks_returned' = tasks_returned \cup {t}
    /\ UNCHANGED <<listen_pc, received, foldVars, joinVars,
                   walkerVars>>
    /\ UNCHANGED <<printer_impl, config, printer, written, errors, sent, bad_sent,
                   displays>>
    /\ UNCHANGED <<readerVars, crawlVars, taskVars, searchVars,
                   bufferVars, poolVars, matcherVars>>

\* search_via_reader, lines 211-217: a line inside the sampling window is
\* not valid UTF-8 and the function returns its statistics at once; the
\* Sender, a parameter of the function, is dropped by the return.
task_skip_binary(t) ==
    /\ listen_pc # "none"
    /\ t \notin tasks_returned
    /\ senders' = senders - 1
    /\ left_at_close' = IF senders = 1 THEN Len(channel) ELSE left_at_close
    /\ tasks_returned' = tasks_returned \cup {t}
    /\ UNCHANGED <<channel, listen_pc, delivered, received, foldVars, joinVars,
                   walkerVars>>
    /\ UNCHANGED <<readerVars, crawlVars, printVars, taskVars, searchVars,
                   bufferVars, poolVars, matcherVars>>

\* spawn_threaded, and a Sender cloned for the task of each target; the
\* caller's own Sender is dropped.
TasksInit ==
    /\ BufferIdle
    /\ PoolIdle
    /\ MatcherIdle
    /\ FoldIdle
    /\ ReaderIdle
    /\ CrawlIdle
    /\ TaskIdle
    /\ SearchIdle
    /\ printer_impl = "PrettyPrinter"
    /\ config \in [print_line_num : {TRUE}, group_by_target : BOOLEAN, matcher : BOOLEAN]
    /\ printer = [file_to_matches |-> [t \in Targets |-> << >>],
                  currently_printing_file |-> 0]
    /\ written = << >>
    /\ errors = 0
    /\ sent = [t \in Targets |-> 0]
    /\ ended = [t \in Targets |-> FALSE]
    /\ bad_sent = 0
    /\ displays = 0
    /\ channel = << >>
    /\ senders = MaxNames
    /\ listen_pc = "recv"
    /\ delivered = << >>
    /\ received = << >>
    /\ left_at_close = 0
    /\ tasks_returned = {}
    /\ JoinIdle
    /\ WalkerIdle

TasksNext ==
    \/ \E t \in Targets : task_send_printable(t)
    \/ \E t \in Targets : task_end_of_reading(t)
    \/ \E t \in Targets : task_skip_binary(t)
    \/ listen_recv
    \/ listen_return

\* The tasks run on the async_std executor and the printer on a thread of
\* its own: each takes the steps it can.
TasksSpec ==
    /\ TasksInit
    /\ [][TasksNext]_vars
    /\ WF_vars(listen_recv)
    /\ WF_vars(listen_return)
    /\ \A t \in 1..MaxNames :
          WF_vars(task_end_of_reading(t) \/ task_skip_binary(t))

\* ------------------------------------------------------------------------
\* Searcher::search_via_reader and Searcher::search_file (src/src/search.rs)
\*
\* The locals of the task are a record [stats, binary_bytes_checked, sent,
\* returned]: sent is the sequence of messages passed to printer.send and
\* returned says that the function has returned.
\* ------------------------------------------------------------------------

\* search_via_reader, lines 203-209: the locals before the loop.
search_start ==
    [NoTask EXCEPT !.stats.total_files_visited = 1]

\* search_via_reader, lines 211-212: the bytes counted once the line is added,
\* while the sampling window is open.
bytes_checked(t, line_result) ==
    IF t.binary_bytes_checked < BINARY_CHECK_LEN_BYTES
    THEN t.binary_bytes_checked + Len(line_result.text)
    ELSE t.binary_bytes_checked

\* The check of the sampling window, were a line that begins at byte 512
\* still checked.
is_binary_window_inclusive(t, line_result) ==
    /\ t.binary_bytes_checked <= BINARY_CHECK_LEN_BYTES
    /\ ~check_utf8(line_result.text)

\* The check of the sampling window with the comparison turned round: no
\* line is ever checked.
is_binary_window_reversed(t, line_result) ==
    /\ t.binary_bytes_checked > BINARY_CHECK_LEN_BYTES
    /\ ~check_utf8(line_result.text)

\* search_via_reader, lines 211-217: the line fails the UTF-8 check inside
\* the sampling window.
is_binary(t, line_result) ==
    /\ t.binary_bytes_checked < BINARY_CHECK_LEN_BYTES
    /\ ~check_utf8(line_result.text)

\* The body of the loop without the test of the matcher: every line that is
\* not binary is sent.
search_line_sends_all(t, name, line_result) ==
    LET checked == bytes_checked(t, line_result)
    IN IF is_binary(t, line_result)
       THEN [t EXCEPT !.binary_bytes_checked = checked,
                      !.stats.non_utf8_bytes_checked = checked,
                      !.stats.skipped_files_non_utf8 = 1,
                      !.returned = TRUE]
       ELSE [t EXCEPT !.binary_bytes_checked = checked,
                      !.stats.lines_matched_count = @ + 1,
                      !.stats.lines_matched_bytes = @ + Len(line_result.text),
                      !.sent = Append(@, Printable(PrintableResult(
                                   name, line_result.line_num, line_result.text)))]

\* search_via_reader, lines 211-230: the body of the loop for one line.
search_line(t, name, line_result) ==
    LET checked == bytes_checked(t, line_result)
    IN IF is_binary(t, line_result)
       THEN [t EXCEPT !.binary_bytes_checked = checked,
                      !.stats.non_utf8_bytes_checked = checked,
                      !.stats.skipped_files_non_utf8 = 1,
                      !.returned = TRUE]
       ELSE IF is_match(line_result.text)
       THEN [t EXCEPT !.binary_bytes_checked = checked,
                      !.stats.lines_matched_count = @ + 1,
                      !.stats.lines_matched_bytes = @ + Len(line_result.text),
                      !.sent = Append(@, Printable(PrintableResult(
                                   name, line_result.line_num, line_result.text)))]
       ELSE [t EXCEPT !.binary_bytes_checked = checked]

\* search_via_reader, lines 233-241: read_line gave None.
search_end(t, name, inner_buf_len) ==
    [t EXCEPT !.sent = Append(@, EndOfReading(name)),
              !.stats.non_utf8_bytes_checked = t.binary_bytes_checked,
              !.stats.max_buffer_size = inner_buf_len,
              !.returned = TRUE]

\* The name of the one target of the task.
TargetName == 1

\* search_file, lines 250-258: File::open fails and the task returns the
\* default stats.
search_file_open_failed ==
    /\ search_pc = "open"
    /\ task' = [NoTask EXCEPT !.returned = TRUE]
    /\ search_pc' = "returned"
    /\ UNCHANGED <<readerVars, nonTaskVars>>

\* search_file, lines 250-269: the file opens, a buffer is acquired from the
\* pool and search_via_reader starts.
search_file_open ==
    /\ search_pc = "open"
    /\ task' = search_start
    /\ search_pc' = "loop"
    /\ UNCHANGED <<readerVars, nonTaskVars>>

\* search_via_reader, line 210: the loop calls read_line.
search_read_line ==
    /\ search_pc = "loop"
    /\ read_line_begin
    /\ search_pc' = "await"
    /\ UNCHANGED <<task, nonTaskVars>>

\* search_via_reader, lines 211-230: read_line gave a line.
search_handle_line ==
    /\ search_pc = "await"
    /\ pc = "idle"
    /\ last.some
    /\ task' = search_line(task, TargetName, LineResult(last.text, lines_read))
    /\ search_pc' = IF task'.returned THEN "returned" ELSE "loop"
    /\ UNCHANGED <<readerVars, nonTaskVars>>

\* search_via_reader, lines 233-241, and search_file, lines 271-275: read_line
\* gave None; the buffer goes back to the pool.
search_finish ==
    /\ search_pc = "await"
    /\ pc = "idle"
    /\ ~last.some
    /\ task' = search_end(task, TargetName, Len(line_buffer.buffer))
    /\ search_pc' = "returned"
    /\ UNCHANGED <<readerVars, nonTaskVars>>

\* Searcher::search_file on one file, whatever it holds and whatever the
\* size of the buffer the pool hands out.
FileInit ==
    /\ OthersIdle
    /\ CrawlIdle
    /\ PrintIdle
    /\ SearchIdle
    /\ source \in BoundedSeq(Bytes, MaxLen)
    /\ rpos = 0
    /\ \E size_hint \in 0..MaxStartSize :
          line_buffer = build(size_hint)
    /\ lines_read = 0
    /\ pc = "idle"
    /\ returned = << >>
    /\ nones = 0
    /\ last = None
    /\ search_pc = "open"
    /\ task = NoTask

FileNext ==
    \/ search_file_open_failed
    \/ search_file_open
    \/ search_read_line
    \/ read_line_roll
    \/ read_line_fill
    \/ read_line_remaining
    \/ read_line_consume
    \/ search_handle_line
    \/ search_finish

FileSpec == FileInit /\ [][FileNext]_vars

\* ------------------------------------------------------------------------
\* Searcher::search_1, Searcher::search and Searcher::search_directory
\* (src/src/search.rs)
\*
\* A Path target carries what the file system holds under the path, as a
\* tree [kind, parent, content] whose node 1 is the path itself.  A node is
\* a "file", a "locked" file (File::open fails), a "dir", an "unreadable"
\* directory (read_dir fails) or "other" (neither a file nor a directory).
\* An entry of a directory may also be "failed" (the listing yields Err for
\* it) or "vanished" (it is listed and its metadata cannot be fetched).  A task that runs on its own is computed in one go, with a
\* reader that fills as much of the buffer as the source allows.
\* ------------------------------------------------------------------------

\* read_line, lines 280-297, from the loop condition on.
RECURSIVE read_line_loop(_, _, _)
read_line_loop(src, b, pos) ==
    IF has_line(b)
    THEN [line_buffer |-> consume_line(b), rpos |-> pos,
          line |-> consume_line_result(b)]
    ELSE LET rolled == roll_to_front(b)
             room == writable_len(ensure_capacity(rolled))
             read == Slice(src, pos, pos + Min(room, Len(src) - pos))
             filled == fill(rolled, read)
         IN IF Len(read) = 0
            THEN [line_buffer |-> consume_remaining(filled), rpos |-> pos,
                  line |-> consume_remaining_result(filled)]
            ELSE read_line_loop(src, filled, pos + Len(read))

\* search_via_reader, lines 210-241: the while let loop and what follows it.
RECURSIVE search_loop(_, _, _, _, _, _)
search_loop(t, name, src, b, pos, read_so_far) ==
    LET r == read_line_loop(src, b, pos)
    IN IF ~r.line.some
       THEN search_end(t, name, Len(r.line_buffer.buffer))
       ELSE LET after == search_line(t, name,
                             LineResult(r.line.text, read_so_far + 1))
            IN IF after.returned
               THEN after
               ELSE search_loop(after, name, src, r.line_buffer, r.rpos,
                                read_so_far + 1)

\* Searcher::search_via_reader over a source and a buffer
search_via_reader(name, src, b) ==
    search_loop(search_start, name, src, b, 0, 0)

\* AsyncLineBufferBuilder::new(): the default start_size_bytes
DefaultStartSize == 8 * 1024

\* BufferPool::pool_size
pool_size == 10

\* Searcher::search_file on node p of tree d
search_file(d, p, size_hint) ==
    IF d.kind[p] = "locked"
    THEN [NoTask EXCEPT !.returned = TRUE]
    ELSE search_via_reader(p, d.content[p], build(size_hint))

\* The entries of directory p of tree d, in the order read_dir gives them.
Entries(d, p) ==
    LET RECURSIVE From(_)
        From(c) == IF c > Len(d.kind) THEN << >>
                   ELSE (IF d.parent[c] = p THEN <<c>> ELSE << >>) \o From(c + 1)
    IN From(1)

\* search_directory, lines 317-334: the entries of one directory; the files
\* are spawned and the directories pushed.  At an entry that the listing
\* yields as Err ("failed") the `while let Some(Ok(dir_entry))` loop is over;
\* at an entry whose metadata cannot be fetched ("vanished") the unwrap of
\* line 318 panics.
RECURSIVE visit_entries(_, _, _)
visit_entries(d, entries, walk) ==
    IF entries = << >>
    THEN walk
    ELSE LET dir_entry == Head(entries)
             next == IF d.kind[dir_entry] \in {"file", "locked"}
                     THEN [walk EXCEPT !.spawned_tasks = Append(@, dir_entry)]
                     ELSE IF d.kind[dir_entry] \in {"dir", "unreadable"}
                     THEN [walk EXCEPT !.dir_stack = Append(@, dir_entry)]
                     ELSE walk
         IN IF d.kind[dir_entry] = "failed"
            THEN walk
            ELSE IF d.kind[dir_entry] = "vanished"
            THEN [walk EXCEPT !.panicked = TRUE]
            ELSE visit_entries(d, Tail(entries), next)

\* search_directory, lines 308-335: the loop over dir_stack.
RECURSIVE walk_dirs(_, _)
walk_dirs(d, walk) ==
    IF walk.panicked \/ walk.dir_stack = << >>
    THEN walk
    ELSE LET dir_path == walk.dir_stack[Len(walk.dir_stack)]
             popped == [walk EXCEPT !.dir_stack = SubSeq(@, 1, Len(@) - 1)]
         IN IF d.kind[dir_path] # "dir"
            THEN walk_dirs(d, popped)
            ELSE walk_dirs(d, visit_entries(d, Entries(d, dir_path), popped))

\* search_directory, lines 339-342: the stats of the tasks folded in.
RECURSIVE fold_tasks(_, _, _, _)
fold_tasks(d, spawned_tasks, size_hint, stats) ==
    IF spawned_tasks = << >>
    THEN stats
    ELSE fold_tasks(d, Tail(spawned_tasks), size_hint,
                    fold_in(stats, search_file(d, Head(spawned_tasks), size_hint).stats))

\* search_directory, lines 302-306: the locals before the loop.
walk_start == [dir_stack |-> <<1>>, spawned_tasks |-> << >>, panicked |-> FALSE]

\* Searcher::search_directory on the root of tree d panics.
search_directory_panics(d) == walk_dirs(d, walk_start).panicked

\* Searcher::search_directory on the root of tree d: the stats returned,
\* when it does not panic.
search_directory(d, size_hint) ==
    LET walk == walk_dirs(d, walk_start)
    IN fold_tasks(d, walk.spawned_tasks, size_hint, ReadStats_default)

\* Target::Stdin with what the standard input holds
Stdin(content) == [type |-> "Stdin", content |-> content]

\* Target::Path(path) with what the file system holds under it
Path(d) == [type |-> "Path", tree |-> d]

is_file(d) == d.kind[1] \in {"file", "locked"}

is_dir(d) == d.kind[1] \in {"dir", "unreadable"}

\* Ok(stats)
Ok(stats) == [type |-> "Ok", stats |-> stats, paths |-> << >>]

\* Err(Error::TargetsNotFound(paths))
TargetsNotFound(paths) == [type |-> "Err", stats |-> ReadStats_default, paths |-> paths]

\* The call has panicked.
Panicked == [type |-> "panic", stats |-> ReadStats_default, paths |-> << >>]

\* What the files of the model hold: one matching line; a line that is not
\* valid UTF-8; a valid line that does not match; a matching line followed
\* by an invalid one; two matching lines, the last without a line break.
OneMatch == <<97, LINE_BREAK>>

BinaryContent == <<195, LINE_BREAK>>

NoMatch == <<195, 169, LINE_BREAK>>

MatchThenBinary == <<97, LINE_BREAK, 195, LINE_BREAK>>

TwoMatches == <<97, LINE_BREAK, 97>>

\* A path that is a file holding content.
FileAt(content) == [kind |-> <<"file">>, parent |-> <<0>>, content |-> <<content>>]

\* A path that is a file that cannot be opened.
LockedFile == [kind |-> <<"locked">>, parent |-> <<0>>, content |-> << << >> >>]

\* A path that is neither a file nor a directory.
NoSuchPath == [kind |-> <<"other">>, parent |-> <<0>>, content |-> << << >> >>]

\* A directory without entries.
EmptyDir == [kind |-> <<"dir">>, parent |-> <<0>>, content |-> << << >> >>]

\* A directory that cannot be read.
UnreadableDir == [kind |-> <<"unreadable">>, parent |-> <<0>>, content |-> << << >> >>]

\* A directory with a.txt (one match), b.bin (binary) and c.txt (no match).
ThreeFilesDir ==
    [kind |-> <<"dir", "file", "file", "file">>,
     parent |-> <<0, 1, 1, 1>>,
     content |-> << << >>, OneMatch, BinaryContent, NoMatch>>]

\* A directory with a subdirectory that holds two files, an unreadable
\* subdirectory, an entry that is neither file nor directory and a file that
\* cannot be opened.
NestedDir ==
    [kind |-> <<"dir", "dir", "file", "unreadable", "other", "locked", "file">>,
     parent |-> <<0, 1, 2, 1, 1, 1, 2>>,
     content |-> << << >>, << >>, TwoMatches, << >>, << >>, << >>, MatchThenBinary>>]

Directories == {EmptyDir, UnreadableDir, ThreeFilesDir, NestedDir}

\* The targets a caller may pass.
TargetChoices ==
    {Stdin(content) : content \in {TwoMatches, BinaryContent}}
    \cup {Path(FileAt(content)) : content \in {OneMatch, BinaryContent, TwoMatches}}
    \cup {Path(d) : d \in Directories \cup {LockedFile, NoSuchPath}}

\* One turn of the for loop that gives up at a target that is neither a file
\* nor a directory: the targets after it are not looked at.
search_1_target_gives_up ==
    /\ entry = "search_1"
    /\ result = NoResult
    /\ cursor <= Len(targets)
    /\ LET target == targets[cursor]
       IN \E size_hint \in IF target.type = "Stdin" THEN {0} ELSE 0..MaxStartSize :
             LET unreachable == /\ target.type = "Path"
                                /\ ~is_file(target.tree)
                                /\ ~is_dir(target.tree)
                 stats == IF target.type = "Stdin"
                          THEN search_via_reader(0, target.content,
                                                 build(DefaultStartSize)).stats
                          ELSE IF is_file(target.tree)
                          THEN search_file(target.tree, 1, size_hint).stats
                          ELSE IF is_dir(target.tree)
                          THEN search_directory(target.tree, size_hint)
                          ELSE ReadStats_default
             IN /\ error_paths' = IF unreachable
                                  THEN Append(error_paths, cursor)
                                  ELSE error_paths
                /\ agg_stats' = fold_in(agg_stats, stats)
                /\ cursor' = IF unreachable THEN Len(targets) + 1 ELSE cursor + 1
    /\ UNCHANGED <<entry, targets, result, nonSearchVars>>

\* search_1, lines 152-179: one turn of the for loop, for the target at
\* cursor.  The position of the target stands for the path pushed to
\* error_paths.
search_1_target ==
    /\ entry = "search_1"
    /\ result = NoResult
    /\ cursor <= Len(targets)
    /\ LET target == targets[cursor]
       IN \E size_hint \in IF target.type = "Stdin" THEN {0} ELSE 0..MaxStartSize :
             LET unreachable == /\ target.type = "Path"
                                /\ ~is_file(target.tree)
                                /\ ~is_dir(target.tree)
                 stats == IF target.type = "Stdin"
                          THEN search_via_reader(0, target.content,
                                                 build(DefaultStartSize)).stats
                          ELSE IF is_file(target.tree)
                          THEN search_file(target.tree, 1, size_hint).stats
                          ELSE IF is_dir(target.tree)
                          THEN search_directory(target.tree, size_hint)
                          ELSE ReadStats_default
             IN /\ error_paths' = IF unreachable
                                  THEN Append(error_paths, cursor)
                                  ELSE error_paths
                /\ agg_stats' = fold_in(agg_stats, stats)
    /\ cursor' = cursor + 1
    /\ UNCHANGED <<entry, targets, result, nonSearchVars>>

\* The end of search_1 that hands over the statistics whether or not a
\* target was unreachable.
search_1_return_always_ok ==
    /\ entry = "search_1"
    /\ result = NoResult
    /\ cursor > Len(targets)
    /\ agg_stats' = [agg_stats EXCEPT !.buffers_created = pool_size]
    /\ result' = Ok(agg_stats')
    /\ UNCHANGED <<entry, targets, cursor, error_paths, nonSearchVars>>

\* search_1, lines 181-187: after the loop.
search_1_return ==
    /\ entry = "search_1"
    /\ result = NoResult
    /\ cursor > Len(targets)
    /\ agg_stats' = [agg_stats EXCEPT !.buffers_created = pool_size]
    /\ result' = IF error_paths = << >>
                 THEN Ok(agg_stats')
                 ELSE TargetsNotFound(error_paths)
    /\ UNCHANGED <<entry, targets, cursor, error_paths, nonSearchVars>>

\* Searcher::search, lines 118-138: targets[0] is the only target taken; a
\* Stdin target panics, a Path target is crawled, search_file runs on what
\* the crawler finds and its stats are dropped.  cursor moves past the
\* target that was driven.
search ==
    /\ entry = "search"
    /\ result = NoResult
    /\ result' = IF targets = << >> \/ targets[1].type = "Stdin"
                 THEN Panicked
                 ELSE Ok(ReadStats_default)
    /\ cursor' = IF result' = Panicked THEN cursor ELSE cursor + 1
    /\ UNCHANGED <<entry, targets, agg_stats, error_paths, nonSearchVars>>

\* A Searcher called on some targets through one of its two entry points.
SearchInit ==
    /\ OthersIdle
    /\ ReaderIdle
    /\ CrawlIdle
    /\ PrintIdle
    /\ TaskIdle
    /\ entry \in {"search_1", "search"}
    /\ targets \in BoundedSeq(TargetChoices, MaxTargets)
    /\ cursor = 1
    /\ agg_stats = ReadStats_default
    /\ error_paths = << >>
    /\ result = NoResult

SearchNext ==
    \/ search_1_target
    \/ search_1_return
    \/ search

SearchSpec == SearchInit /\ [][SearchNext]_vars

\* ------------------------------------------------------------------------
\* Searcher::search_directory (src/src/search.rs) called on a directory
\* whose listing may fail.
\* ------------------------------------------------------------------------

\* What an entry of a directory may be.
DirKinds == {"file", "dir", "unreadable", "failed", "vanished", "other"}

\* The directories of at most MaxNodes paths, every file holding one
\* matching line.
DirTrees ==
    UNION {
      {[kind |-> k, parent |-> p,
        content |-> [c \in 1..n |-> IF k[c] = "file" THEN OneMatch ELSE << >>]] :
         k \in {kk \in [1..n -> DirKinds] : kk[1] \in {"dir", "unreadable"}},
         p \in {pp \in [1..n -> 0..(n - 1)] :
                   /\ pp[1] = 0
                   /\ \A c \in 2..n : pp[c] \in 1..(c - 1)}}
      : n \in 1..MaxNodes}

\* search_directory(directory_path, ..), lines 292-345, for the directory
\* targets[1].
search_directory_call ==
    /\ entry = "search_directory"
    /\ result = NoResult
    /\ \E size_hint \in 0..MaxStartSize :
          LET d == targets[1].tree
          IN IF search_directory_panics(d)
             THEN /\ result' = Panicked
                  /\ UNCHANGED agg_stats
             ELSE /\ agg_stats' = search_directory(d, size_hint)
                  /\ result' = Ok(agg_stats')
    /\ cursor' = cursor + 1
    /\ UNCHANGED <<entry, targets, error_paths, nonSearchVars>>

DirInit ==
    /\ OthersIdle
    /\ ReaderIdle
    /\ CrawlIdle
    /\ PrintIdle
    /\ TaskIdle
    /\ entry = "search_directory"
    /\ \E d \in DirTrees :
          /\ IsTree(d.kind, d.parent)
          /\ targets = <<Path(d)>>
    /\ cursor = 1
    /\ agg_stats = ReadStats_default
    /\ error_paths = << >>
    /\ result = NoResult

DirNext == search_directory_call

DirSpec == DirInit /\ [][DirNext]_vars

\* ------------------------------------------------------------------------
\* The operations of one AsyncLineBuffer called in any order
\* (src/src/buffer/async_line_buffer.rs).  A call that indexes out of range
\* panics and ends the run.  An offset that usize subtraction wraps around
\* (a build without overflow checks) is kept as the negative number it
\* would be without the wrap: it stands for that number plus 2^64.
\* ------------------------------------------------------------------------

\* consume_line, line 186: &self.buffer[self.start..=line_break_pos] panics.
slice_panics(b, line_break_pos) ==
    \/ line_break_pos < 0
    \/ line_break_pos >= Len(b.buffer)
    \/ line_break_pos + 1 < b.start

\* roll_to_front, lines 228-230: *idx -= left_shift_len overflows for some
\* offset.
shift_overflows(b) ==
    /\ b.start # b.end
    /\ b.start # 0
    /\ \E i \in 1..Len(b.line_break_idxs) :
          /\ 0 <= b.line_break_idxs[i]
          /\ b.line_break_idxs[i] < b.start

\* roll_to_front, lines 228-230, when the overflow is checked: the offsets
\* from the front of the deque are shifted up to the one that overflows.
RECURSIVE shift_until_overflow(_, _)
shift_until_overflow(idxs, left_shift_len) ==
    IF idxs = << >> THEN << >>
    ELSE IF 0 <= Head(idxs) /\ Head(idxs) < left_shift_len
    THEN idxs
    ELSE <<Head(idxs) - left_shift_len>>
         \o shift_until_overflow(Tail(idxs), left_shift_len)

\* What every call leaves alone.
BufferCall(name) ==
    /\ op \notin {"none", "panic"}
    /\ op' = name
    /\ before' = line_buffer
    /\ UNCHANGED <<source, lines_read, pc, returned, nones, last>>
    /\ UNCHANGED <<crawlVars, printVars, taskVars, searchVars, poolVars, matcherVars,
                   listenVars, restVars>>

\* fill(reader), lines 115-147
buffer_fill ==
    /\ BufferCall("fill")
    /\ \E read \in ReadChoices(writable_len(ensure_capacity(line_buffer))) :
          /\ line_buffer' = fill(line_buffer, read)
          /\ rpos' = rpos + Len(read)

\* ensure_capacity(), lines 171-179
buffer_ensure_capacity ==
    /\ BufferCall("ensure_capacity")
    /\ line_buffer' = ensure_capacity(line_buffer)
    /\ UNCHANGED rpos

\* refresh(), lines 151-155
buffer_refresh ==
    /\ BufferCall("refresh")
    /\ line_buffer' = refresh(line_buffer)
    /\ UNCHANGED rpos

\* consume_line(), lines 183-196
buffer_consume_line ==
    /\ BufferCall("consume_line")
    /\ IF has_line(line_buffer)
       THEN ~slice_panics(line_buffer,
                          line_buffer.line_break_idxs[Len(line_buffer.line_break_idxs)])
       ELSE TRUE
    /\ line_buffer' = consume_line(line_buffer)
    /\ UNCHANGED rpos

\* consume_line(), lines 184-186: the offset is popped and the slice panics.
buffer_consume_line_panic ==
    /\ BufferCall("panic")
    /\ has_line(line_buffer)
    /\ slice_panics(line_buffer,
                    line_buffer.line_break_idxs[Len(line_buffer.line_break_idxs)])
    /\ line_buffer' = [line_buffer EXCEPT
                         !.line_break_idxs = SubSeq(@, 1, Len(@) - 1)]
    /\ UNCHANGED rpos

\* consume_remaining(), lines 198-207
buffer_consume_remaining ==
    /\ BufferCall("consume_remaining")
    /\ line_buffer' = consume_remaining(line_buffer)
    /\ UNCHANGED rpos

\* roll_to_front(), lines 211-233; an offset below start wraps around.
buffer_roll_to_front ==
    /\ BufferCall("roll_to_front")
    /\ line_buffer' = roll_to_front(line_buffer)
    /\ UNCHANGED rpos

\* roll_to_front(), lines 223-230, in a build that checks overflow: the
\* subtraction panics at the first offset below start.
buffer_roll_to_front_panic ==
    /\ BufferCall("panic")
    /\ shift_overflows(line_buffer)
    /\ line_buffer' =
          [line_buffer EXCEPT
             !.buffer = copy_within(@, line_buffer.start, line_buffer.end),
             !.end = @ - line_buffer.start,
             !.line_break_idxs = shift_until_overflow(@, line_buffer.start)]
    /\ UNCHANGED rpos

\* The bytes of the sources read here: the line break and one other byte,
\* which is all the operations tell apart.
BreakOrNot == {LINE_BREAK, 97}

\* A buffer as built for some start size, over some source.
BufferInit ==
    /\ CrawlIdle
    /\ PrintIdle
    /\ TaskIdle
    /\ SearchIdle
    /\ PoolIdle
    /\ MatcherIdle
    /\ ListenIdle
    /\ RestIdle
    /\ source \in BoundedSeq(BreakOrNot, MaxLen)
    /\ rpos = 0
    /\ \E start_size_bytes \in 0..MaxStartSize :
          line_buffer = build(start_size_bytes)
    /\ lines_read = 0
    /\ pc = "idle"
    /\ returned = << >>
    /\ nones = 0
    /\ last = None
    /\ op = "build"
    /\ before = line_buffer

BufferNext ==
    \/ buffer_fill
    \/ buffer_ensure_capacity
    \/ buffer_refresh
    \/ buffer_consume_line
    \/ buffer_consume_line_panic
    \/ buffer_consume_remaining
    \/ buffer_roll_to_front
    \/ buffer_roll_to_front_panic

BufferSpec == BufferInit /\ [][BufferNext]_vars

\* ------------------------------------------------------------------------
\* BufferPool (src/src/buffer/buffer_pool.rs) shared by the tasks that
\* search files: each acquires a buffer for a size hint, reads through it
\* and returns it.
\* ------------------------------------------------------------------------

\* The tasks that may hold a buffer at the same time.
MaxHeld == 2

\* The cap on size_hint of the line of generate_new that is commented out:
\* usize::min(6_000_000, size_hint).
SizeHintCap == 6000000

\* The size hints acquire is called with: the lengths of small files, the
\* builder's default and a file one byte beyond the cap.
SizeHints == (0..MaxStartSize) \cup {DefaultStartSize, SizeHintCap + 1}

\* AsyncLineBufferBuilder::new()
AsyncLineBufferBuilder_new ==
    [line_break_byte |-> LINE_BREAK, start_size_bytes |-> DefaultStartSize]

\* AsyncLineBufferBuilder::with_start_size_bytes
with_start_size_bytes(builder, start_size_bytes) ==
    [builder EXCEPT !.start_size_bytes = start_size_bytes]

\* AsyncLineBufferBuilder::build, the Vec vec![0u8; start_size_bytes] kept
\* as its length.
Builder_build(builder) ==
    [len |-> builder.start_size_bytes,
     line_break_idxs |-> << >>,
     start |-> 0,
     end |-> 0]

\* A generate_new whose buffer counts its bytes as written already.
generate_new_written(size_hint) ==
    [Builder_build(with_start_size_bytes(AsyncLineBufferBuilder_new, size_hint))
        EXCEPT !.end = size_hint]

\* BufferPool::generate_new
generate_new(size_hint) ==
    Builder_build(with_start_size_bytes(AsyncLineBufferBuilder_new, size_hint))

\* BufferPool::acquire: the pool afterwards and the buffer returned.  The
\* recycling through try_get_existing is commented out.
acquire(p, size_hint) == [pool |-> p, buf |-> generate_new(size_hint)]

\* BufferPool::return_to_pool: the pool afterwards.  The body (buf.refresh()
\* and the push to the pool) is commented out: buf is dropped.
return_to_pool(p, buf) == p

\* AsyncLineBuffer::fill on a buffer kept as its length, for a read of one
\* byte that is the line break.
fill_line_break(b) ==
    LET len == IF b.len - b.end # 0 THEN b.len ELSE Max(1, b.len) * 2
    IN [len |-> len,
        line_break_idxs |-> <<b.end>> \o b.line_break_idxs,
        start |-> b.start,
        end |-> b.end + 1]

Remove(s, i) == SubSeq(s, 1, i - 1) \o SubSeq(s, i + 1, Len(s))

\* What the calls on the pool leave alone.
PoolCall ==
    UNCHANGED <<readerVars, crawlVars, printVars, taskVars, searchVars,
                bufferVars, matcherVars, listenVars, restVars>>

\* A task calls buf_pool.acquire(size_hint).
pool_acquire ==
    /\ pool_op.name # "none"
    /\ Len(held) < MaxHeld
    /\ \E size_hint \in SizeHints :
          LET r == acquire(pool, size_hint)
          IN /\ pool' = r.pool
             /\ held' = Append(held, r.buf)
             /\ pool_op' = [name |-> "acquire", size_hint |-> size_hint,
                            buf |-> r.buf]
    /\ UNCHANGED ever_returned
    /\ PoolCall

\* A task reads through the buffer it holds.
pool_task_reads ==
    /\ \E i \in 1..Len(held) :
          /\ held[i].end = 0
          /\ held' = [held EXCEPT ![i] = fill_line_break(held[i])]
    /\ UNCHANGED <<pool, pool_op, ever_returned>>
    /\ PoolCall

\* A task calls buf_pool.return_to_pool(buf).
pool_return_to_pool ==
    /\ \E i \in 1..Len(held) :
          /\ pool' = return_to_pool(pool, held[i])
          /\ held' = Remove(held, i)
          /\ pool_op' = [name |-> "return_to_pool", size_hint |-> 0,
                         buf |-> held[i]]
    /\ ever_returned' = TRUE
    /\ PoolCall

\* BufferPool::new(): no buffer is built ahead.
PoolInit ==
    /\ ReaderIdle
    /\ CrawlIdle
    /\ PrintIdle
    /\ TaskIdle
    /\ SearchIdle
    /\ BufferIdle
    /\ MatcherIdle
    /\ ListenIdle
    /\ RestIdle
    /\ pool = << >>
    /\ held = << >>
    /\ pool_op = [NoCall EXCEPT !.name = "new"]
    /\ ever_returned = FALSE

PoolNext ==
    \/ pool_acquire
    \/ pool_task_reads
    \/ pool_return_to_pool

PoolSpec == PoolInit /\ [][PoolNext]_vars

\* ------------------------------------------------------------------------
\* Matcher (src/src/matcher.rs): DummyMatcher, and the RegexMatcher that
\* RegexMatcherBuilder builds for a literal pattern.  The regex crate is
\* modelled by what its documentation says of Regex::is_match and
\* Regex::find_iter: leftmost-first matches, none overlapping another.
\* Offsets count bytes from 0.
\* ------------------------------------------------------------------------

\* The bytes of the slices: the line break, a space, "A", "a" and a byte
\* that is not ASCII.
MatcherBytes == {LINE_BREAK, 32, 65, 97, 195}

\* The patterns: the builder's default "", "a" and "aa".
Patterns == {<< >>, <<97>>, <<97, 97>>}

DummyMatcher == [type |-> "DummyMatcher"]

\* RegexMatcherBuilder::build
RegexMatcher(pattern, is_case_insensitive, match_whole_word) ==
    [type |-> "RegexMatcher", pattern |-> pattern,
     is_case_insensitive |-> is_case_insensitive,
     match_whole_word |-> match_whole_word]

Matchers ==
    {DummyMatcher}
    \cup {RegexMatcher(pattern, i, w) :
             pattern \in Patterns, i \in BOOLEAN, w \in BOOLEAN}

\* Simple case folding of an ASCII byte.
fold(byte) == IF byte \in 65..90 THEN byte + 32 ELSE byte

\* [0-9A-Za-z_], the ASCII bytes of \w.
is_word_byte(byte) ==
    byte \in (48..57) \cup (65..90) \cup (97..122) \cup {95}

\* The pattern, a literal, matches at offset i, under
\* RegexBuilder::case_insensitive.
literal_at(m, bytes, i) ==
    /\ i + Len(m.pattern) <= Len(bytes)
    /\ \A k \in 1..Len(m.pattern) :
          IF m.is_case_insensitive
          THEN fold(bytes[i + k]) = fold(m.pattern[k])
          ELSE bytes[i + k] = m.pattern[k]

\* (?m:^) at offset i
line_start(bytes, i) == i = 0 \/ bytes[i] = LINE_BREAK

\* (?m:$) at offset i
line_end(bytes, i) == i = Len(bytes) \/ bytes[i + 1] = LINE_BREAK

\* \W at offset i: a character that is not a word character.  Of the bytes
\* here only the ASCII ones form a character on their own.
non_word_at(bytes, i) ==
    /\ i < Len(bytes)
    /\ bytes[i + 1] < 128
    /\ ~is_word_byte(bytes[i + 1])

\* The end of (pattern)(?:(?m:$)|\W) matched from offset p, or -1.
word_tail_end(m, bytes, p) ==
    IF ~literal_at(m, bytes, p) THEN -1
    ELSE LET q == p + Len(m.pattern)
         IN IF line_end(bytes, q) THEN q
            ELSE IF non_word_at(bytes, q) THEN q + 1
            ELSE -1

\* The end of the match of the regex that starts at offset s, or -1 if none
\* starts there; with match_whole_word the regex is format_word_match's
\* (?:(?m:^)|\W)(pattern)(?:(?m:$)|\W), the first alternative preferred.
match_end_at(m, bytes, s) ==
    IF ~m.match_whole_word
    THEN IF literal_at(m, bytes, s) THEN s + Len(m.pattern) ELSE -1
    ELSE LET by_line_start == IF line_start(bytes, s)
                              THEN word_tail_end(m, bytes, s) ELSE -1
             by_non_word == IF non_word_at(bytes, s)
                            THEN word_tail_end(m, bytes, s + 1) ELSE -1
         IN IF by_line_start # -1 THEN by_line_start ELSE by_non_word

\* Regex::find_at: the leftmost match that starts at offset `at` or later,
\* as [start, stop], or stop = -1.
RECURSIVE find_at(_, _, _)
find_at(m, bytes, at) ==
    IF at > Len(bytes) THEN [start |-> at, stop |-> -1]
    ELSE IF match_end_at(m, bytes, at) # -1
    THEN [start |-> at, stop |-> match_end_at(m, bytes, at)]
    ELSE find_at(m, bytes, at + 1)

\* Regex::find_iter: the iterator's next() called until it gives None.  An
\* empty match moves the search on by one byte and is dropped if it follows
\* the previous match directly.
RECURSIVE find_iter(_, _, _, _)
find_iter(m, bytes, last_end, last_match) ==
    IF last_end > Len(bytes) THEN << >>
    ELSE LET found == find_at(m, bytes, last_end)
         IN IF found.stop = -1 THEN << >>
            ELSE IF found.start = found.stop
            THEN IF found.stop = last_match
                 THEN find_iter(m, bytes, found.stop + 1, last_match)
                 ELSE <<found>> \o find_iter(m, bytes, found.stop + 1, found.stop)
            ELSE <<found>> \o find_iter(m, bytes, found.stop, found.stop)

\* An is_match that asks the regex for the pattern alone, whole words or
\* not.
Matcher_is_match_pattern_alone(m, bytes) ==
    IF m.type = "DummyMatcher"
    THEN FALSE
    ELSE \E s \in 0..Len(bytes) : literal_at(m, bytes, s)

\* Matcher::is_match of DummyMatcher and of RegexMatcher
Matcher_is_match(m, bytes) ==
    IF m.type = "DummyMatcher"
    THEN FALSE
    ELSE \E s \in 0..Len(bytes) : match_end_at(m, bytes, s) # -1

\* Matcher::find_matches of DummyMatcher and of RegexMatcher
Matcher_find_matches(m, bytes) ==
    IF m.type = "DummyMatcher"
    THEN << >>
    ELSE find_iter(m, bytes, 0, -1)

\* What the calls of a matcher leave alone.
MatcherCall ==
    UNCHANGED <<readerVars, crawlVars, printVars, taskVars, searchVars,
                bufferVars, poolVars, listenVars, restVars, matcher, bytes_given>>

\* matcher.is_match(bytes)
call_is_match ==
    /\ matcher.type # "none"
    /\ ~is_match_out.done
    /\ is_match_out' = [done |-> TRUE,
                        value |-> Matcher_is_match(matcher, bytes_given)]
    /\ UNCHANGED find_matches_out
    /\ MatcherCall

\* matcher.find_matches(bytes)
call_find_matches ==
    /\ matcher.type # "none"
    /\ ~find_matches_out.done
    /\ find_matches_out' = [done |-> TRUE,
                            value |-> Matcher_find_matches(matcher, bytes_given)]
    /\ UNCHANGED is_match_out
    /\ MatcherCall

\* Some matcher and some slice.
MatcherInit ==
    /\ ReaderIdle
    /\ CrawlIdle
    /\ PrintIdle
    /\ TaskIdle
    /\ SearchIdle
    /\ BufferIdle
    /\ PoolIdle
    /\ ListenIdle
    /\ RestIdle
    /\ matcher \in Matchers
    /\ bytes_given \in BoundedSeq(MatcherBytes, MaxLen)
    /\ is_match_out = NotAsked
    /\ find_matches_out = NotCalled

\* PrettyPrinter::print_line_result with this matcher attached, lines
\* 96-107: print_colorized(line_num_chunk, matcher, writer, printable) for
\* line 1 of target 1, whose text is the slice.
call_print_colorized ==
    /\ matcher.type # "none"
    /\ written = << >>
    /\ LET ranges == Matcher_find_matches(matcher, bytes_given)
       IN /\ written' = <<Line(1, 1, print_colorized(bytes_given, ranges))>>
          /\ errors' = colorized_errors(bytes_given, ranges, 0)
    /\ UNCHANGED <<printer_impl, config, printer, sent, ended, bad_sent, displays>>
    /\ UNCHANGED <<readerVars, crawlVars, taskVars, searchVars,
                   bufferVars, poolVars, listenVars, restVars, matcherVars>>

MatcherNext ==
    \/ call_is_match
    \/ call_find_matches
    \/ call_print_colorized

MatcherSpec == MatcherInit /\ [][MatcherNext]_vars

\* ------------------------------------------------------------------------
\* Searcher::search_via_reader (src/src/search.rs) over sources long enough
\* to leave the sampling window of BINARY_CHECK_LEN_BYTES bytes.
\* ------------------------------------------------------------------------

\* The most lines of such a source.
MaxWindowLines == 3

\* A line of n bytes that is valid UTF-8 and matches when it holds an "a":
\* n - 1 times "a" and the line break.
ValidLine(n) == [i \in 1..n |-> IF i = n THEN LINE_BREAK ELSE 97]

\* A line that matches and is not valid UTF-8.
InvalidLine == <<97, 195, LINE_BREAK>>

\* The lines a source ends with: with the lines before them their lengths
\* add up to just below, to, and just above the window.
WindowLines ==
    {ValidLine(n) : n \in {1, 31, 32}} \cup {InvalidLine}

\* The lines a source begins with: none, or fifteen valid lines of 32 bytes,
\* 480 bytes that leave 32 bytes of the window.
WindowPrefixes == {[i \in 1..k |-> ValidLine(32)] : k \in {0, 15}}

\* The bytes of the lines, one line after another.
RECURSIVE Flatten(_)
Flatten(lines) ==
    IF lines = << >> THEN << >> ELSE Head(lines) \o Flatten(Tail(lines))

\* search_via_reader(matcher, buffer, name, printer), lines 190-242, from
\* its first line to its return, over a buffer the pool has just made.
search_via_reader_call ==
    /\ search_pc = "open"
    /\ source # << >>
    /\ \E size_hint \in 0..MaxStartSize :
          task' = search_via_reader(TargetName, source, build(size_hint))
    /\ search_pc' = "returned"
    /\ UNCHANGED <<readerVars, nonTaskVars>>

WindowInit ==
    /\ OthersIdle
    /\ CrawlIdle
    /\ PrintIdle
    /\ SearchIdle
    /\ \E prefix \in WindowPrefixes, n \in 1..MaxWindowLines :
          \E lines \in [1..n -> WindowLines] : source = Flatten(prefix \o lines)
    /\ rpos = 0
    /\ line_buffer = build(0)
    /\ lines_read = 0
    /\ pc = "idle"
    /\ returned = << >>
    /\ nones = 0
    /\ last = None
    /\ search_pc = "open"
    /\ task = NoTask

WindowNext == search_via_reader_call

WindowSpec == WindowInit /\ [][WindowNext]_vars

\* ------------------------------------------------------------------------
\* The line buffer of src/src/line_buffer.rs, which owns its reader.  Its
\* Vec<u8> holds the bytes written in [0, end) and zeros after them: the
\* buffer is kept as a record [len, data, line_break_positions, end,
\* initial_capacity, max_capacity], len the length of the Vec and data its
\* first `end` bytes.  It uses the variables of the reader above: source and
\* rpos are the reader it owns, returned the lines read_next_line gave.
\* ------------------------------------------------------------------------

\* ensure_capacity, line 89
MIN_CAPACITY == 8000

\* "This is a simple test.", the source of the tests of line_buffer.rs.
TestSource ==
    <<84, 104, 105, 115, 32, 105, 115, 32, 97, 32, 115, 105, 109, 112, 108, 101,
      32, 116, 101, 115, 116, 46>>

\* AsyncLineBufferBuilder::new(reader).with_initial_capacity(..).build():
\* max_capacity is None (kept as -1), which no method of the builder changes.
line_buffer_build(initial_capacity) ==
    [len |-> initial_capacity,
     data |-> << >>,
     line_break_positions |-> << >>,
     end |-> 0,
     initial_capacity |-> initial_capacity,
     max_capacity |-> -1]

\* AsyncLineBuffer::ensure_capacity, lines 88-103
line_buffer_ensure_capacity(b) ==
    IF b.len - b.end >= MIN_CAPACITY
    THEN b
    ELSE LET doubled_space == Max(1, b.len) * 2
             resize_to == IF b.max_capacity # -1
                          THEN Min(doubled_space, b.max_capacity)
                          ELSE doubled_space
         IN [b EXCEPT !.len = Max(MIN_CAPACITY, resize_to)]

\* read_to_buffer, lines 115-125, after the read wrote `chunk` at end.
line_buffer_written(b, chunk) ==
    [b EXCEPT
        !.data = @ \o chunk,
        !.line_break_positions =
            @ \o SelectSeq([i \in 1..Len(chunk) |->
                               IF chunk[i] = LINE_BREAK THEN b.end + i - 1 ELSE -1],
                           LAMBDA global_pos : global_pos # -1),
        !.end = @ + Len(chunk)]

\* AsyncLineBuffer::drain_to_pos, lines 130-143: buffer.drain(..pos) takes
\* the first pos bytes out of the Vec, which gets shorter by as many.
drain_to_pos(b, pos) ==
    [b EXCEPT
        !.len = @ - pos,
        !.data = SubSeq(@, pos + 1, Len(@)),
        !.end = @ - pos,
        !.line_break_positions = [i \in 1..Len(@) |-> @[i] - pos]]

\* What the calls on a line buffer of line_buffer.rs leave alone.
LineBufferCall ==
    /\ UNCHANGED <<source, lines_read, last>>
    /\ UNCHANGED <<crawlVars, printVars, taskVars, searchVars, otherVars>>

\* read_to_buffer(), lines 105-128, called by itself as the tests do.
read_to_buffer ==
    /\ pc = "idle"
    /\ nones < MaxNoneReads
    /\ LET ensured == line_buffer_ensure_capacity(line_buffer)
       IN \E chunk \in ReadChoices(ensured.len - ensured.end) :
             /\ line_buffer' = line_buffer_written(ensured, chunk)
             /\ rpos' = rpos + Len(chunk)
    /\ UNCHANGED <<pc, returned, nones>>
    /\ LineBufferCall

\* read_next_line, lines 147-157: a line break is queued; the line up to
\* and with it is drained and returned.
read_next_line_drain ==
    /\ pc \in {"idle", "loop"}
    /\ nones < MaxNoneReads
    /\ line_buffer.line_break_positions # << >>
    /\ LET break_pos == Head(line_buffer.line_break_positions)
           popped == [line_buffer EXCEPT !.line_break_positions = Tail(@)]
       IN /\ returned' = Append(returned, SubSeq(line_buffer.data, 1, break_pos + 1))
          /\ line_buffer' = drain_to_pos(popped, break_pos + 1)
    /\ pc' = "idle"
    /\ UNCHANGED <<rpos, nones>>
    /\ LineBufferCall

\* read_next_line, lines 159-169: no line break is queued; read_to_buffer,
\* and at the end of the source return what is left, or None.
read_next_line_read ==
    /\ pc \in {"idle", "loop"}
    /\ nones < MaxNoneReads
    /\ line_buffer.line_break_positions = << >>
    /\ LET ensured == line_buffer_ensure_capacity(line_buffer)
       IN \E chunk \in ReadChoices(ensured.len - ensured.end) :
             LET read == line_buffer_written(ensured, chunk)
             IN /\ rpos' = rpos + Len(chunk)
                /\ IF chunk # << >>
                   THEN /\ line_buffer' = read
                        /\ pc' = "loop"
                        /\ UNCHANGED <<returned, nones>>
                   ELSE IF read.end # 0
                   THEN /\ line_buffer' = drain_to_pos(read, read.end)
                        /\ returned' = Append(returned, read.data)
                        /\ pc' = "idle"
                        /\ UNCHANGED nones
                   ELSE /\ line_buffer' = read
                        /\ nones' = nones + 1
                        /\ pc' = "idle"
                        /\ UNCHANGED returned
    /\ LineBufferCall

\* A line buffer built over a reader: the sources of a few bytes and the
\* one of the tests, the capacities of the tests (8 and 128) and small ones.
LineBufferInit ==
    /\ OthersIdle
    /\ CrawlIdle
    /\ PrintIdle
    /\ TaskIdle
    /\ SearchIdle
    /\ source \in BoundedSeq(BreakOrNot, MaxLen) \cup {TestSource}
    /\ rpos = 0
    /\ \E initial_capacity \in (0..MaxStartSize) \cup {8, 128} :
          line_buffer = line_buffer_build(initial_capacity)
    /\ lines_read = 0
    /\ pc = "idle"
    /\ returned = << >>
    /\ nones = 0
    /\ last = None

LineBufferNext ==
    \/ read_to_buffer
    \/ read_next_line_drain
    \/ read_next_line_read

LineBufferSpec == LineBufferInit /\ [][LineBufferNext]_vars

\* ------------------------------------------------------------------------
\* ReadStats::fold_in (src/src/search.rs) applied to records in any order
\* and any grouping: the aggregates of sub-directories are folded into the
\* aggregate of their parent as the records of files are.  The two Duration
\* fields are summed as the counters are and are left out.  The counters
\* count files, lines and bytes read: they stay far below 2^64.
\* ------------------------------------------------------------------------

\* The most records folded.
MaxRecords == 3

\* A ReadStats as search_via_reader and search_file return it.
ReadStats(skipped, checked, count, bytes, buffer_size) ==
    [total_files_visited |-> 1,
     skipped_files_non_utf8 |-> skipped,
     non_utf8_bytes_checked |-> checked,
     lines_matched_count |-> count,
     lines_matched_bytes |-> bytes,
     max_buffer_size |-> buffer_size,
     buffers_created |-> 0]

\* The records folded: the default one (search_file gives it for a file it
\* cannot open, line 256), that of a file with nothing in it, of a file
\* skipped as binary, and of files searched with buffers of different
\* lengths.
StatsChoices ==
    {ReadStats_default,
     ReadStats(0, 0, 0, 0, 0),
     ReadStats(1, 2, 0, 0, 0),
     ReadStats(0, 2, 1, 2, 3),
     ReadStats(0, 4, 2, 4, 8)}

\* parts[i].fold_in(&parts[j]): the aggregate j is folded into the
\* aggregate i and is done with.
fold_pair(i, j) ==
    /\ i # j
    /\ parts' = [k \in 1..(Len(parts) - 1) |->
                    IF k = (IF j < i THEN i - 1 ELSE i)
                    THEN fold_in(parts[i], parts[j])
                    ELSE IF k < j THEN parts[k] ELSE parts[k + 1]]
    /\ UNCHANGED inputs
    /\ UNCHANGED <<readerVars, crawlVars, printVars, taskVars, searchVars,
                   bufferVars, poolVars, matcherVars, listenVars, laterVars>>

\* let mut agg_stats = ReadStats::default(), lines 146 and 300: a new
\* aggregate to fold records into.
new_aggregate ==
    /\ inputs # << >>
    /\ Len(parts) <= Len(inputs)
    /\ parts' = Append(parts, ReadStats_default)
    /\ UNCHANGED inputs
    /\ UNCHANGED <<readerVars, crawlVars, printVars, taskVars, searchVars,
                   bufferVars, poolVars, matcherVars, listenVars, laterVars>>

FoldInit ==
    /\ ReaderIdle
    /\ CrawlIdle
    /\ PrintIdle
    /\ TaskIdle
    /\ SearchIdle
    /\ BufferIdle
    /\ PoolIdle
    /\ MatcherIdle
    /\ ListenIdle
    /\ LaterIdle
    /\ inputs \in UNION {[1..n -> StatsChoices] : n \in 1..MaxRecords}
    /\ parts = inputs

FoldNext ==
    \/ \E i, j \in 1..Len(parts) : fold_pair(i, j)
    \/ new_aggregate

FoldSpec == FoldInit /\ [][FoldNext]_vars

\* ------------------------------------------------------------------------
\* Searcher::search_directory (src/src/search.rs, lines 292-345) with the
\* tasks it spawns running beside it: each task is search_file on one file
\* found and sends through its own clone of the printer.
\* ------------------------------------------------------------------------

\* The targets a task was spawned for.
SpawnedTargets == {spawned[i] : i \in 1..Len(spawned)}

\* The ReadStats the task of target t returns, for what it sent: the lines
\* matched, their bytes and whether the file was skipped as binary.  The
\* byte count of the window and the buffer size are left at 0.
task_record(t) ==
    ReadStats(IF ended[t] THEN 0 ELSE 1, 0, sent[t], sent[t] * Len(GoodText), 0)

\* search_directory, lines 317-332: the listing yields a file; printer,
\* matcher and pool are cloned and the task is spawned and pushed.
search_dir_spawn ==
    /\ search_dir_pc = "walk"
    /\ Len(spawned) < MaxNames
    /\ spawned' = Append(spawned, Len(spawned) + 1)
    /\ senders' = senders + 1
    /\ UNCHANGED <<search_dir_pc, joined, tasks_returned, foldVars, walkerVars>>
    /\ UNCHANGED <<channel, listen_pc, delivered, received, left_at_close>>
    /\ UNCHANGED <<readerVars, crawlVars, printVars, taskVars, searchVars,
                   bufferVars, poolVars, matcherVars>>

\* search_directory, lines 308 and 337: dir_stack is empty, the walk is
\* over.
search_dir_walked ==
    /\ search_dir_pc = "walk"
    /\ search_dir_pc' = "fold"
    /\ UNCHANGED <<spawned, joined, tasks_returned, foldVars, walkerVars>>
    /\ UNCHANGED <<readerVars, crawlVars, printVars, taskVars, searchVars,
                   bufferVars, poolVars, matcherVars, listenVars>>

\* search_directory, lines 339-342: task.await gives the record of the next
\* task once that task has finished, and the record is folded in.
search_dir_await ==
    /\ search_dir_pc = "fold"
    /\ joined < Len(spawned)
    /\ spawned[joined + 1] \in tasks_returned
    /\ agg_stats' = fold_in(agg_stats, task_record(spawned[joined + 1]))
    /\ joined' = joined + 1
    /\ UNCHANGED <<search_dir_pc, spawned, tasks_returned, foldVars, walkerVars>>
    /\ UNCHANGED <<entry, targets, cursor, error_paths, result>>
    /\ UNCHANGED <<readerVars, crawlVars, printVars, taskVars,
                   bufferVars, poolVars, matcherVars, listenVars>>

\* search_directory returning as soon as the walk is over, the tasks left
\* detached.
search_dir_return_detached ==
    /\ search_dir_pc = "fold"
    /\ search_dir_pc' = "returned"
    /\ result' = Ok(agg_stats)
    /\ senders' = senders - 1
    /\ left_at_close' = IF senders = 1 THEN Len(channel) ELSE left_at_close
    /\ UNCHANGED <<spawned, joined, tasks_returned, foldVars, walkerVars>>
    /\ UNCHANGED <<entry, targets, cursor, agg_stats, error_paths>>
    /\ UNCHANGED <<channel, listen_pc, delivered, received>>
    /\ UNCHANGED <<readerVars, crawlVars, printVars, taskVars,
                   bufferVars, poolVars, matcherVars>>

\* search_directory, lines 339-345: every task has been awaited; agg_stats
\* is returned and the printer the function was given is dropped.
search_dir_return ==
    /\ search_dir_pc = "fold"
    /\ joined = Len(spawned)
    /\ search_dir_pc' = "returned"
    /\ result' = Ok(agg_stats)
    /\ senders' = senders - 1
    /\ left_at_close' = IF senders = 1 THEN Len(channel) ELSE left_at_close
    /\ UNCHANGED <<spawned, joined, tasks_returned, foldVars, walkerVars>>
    /\ UNCHANGED <<entry, targets, cursor, agg_stats, error_paths>>
    /\ UNCHANGED <<channel, listen_pc, delivered, received>>
    /\ UNCHANGED <<readerVars, crawlVars, printVars, taskVars,
                   bufferVars, poolVars, matcherVars>>

\* search_directory, lines 298-306: called with a printer of the threaded
\* printer; nothing spawned yet.
JoinInit ==
    /\ BufferIdle
    /\ PoolIdle
    /\ MatcherIdle
    /\ FoldIdle
    /\ ReaderIdle
    /\ CrawlIdle
    /\ TaskIdle
    /\ entry = "search_directory"
    /\ targets = << >>
    /\ cursor = 1
    /\ agg_stats = ReadStats_default
    /\ error_paths = << >>
    /\ result = NoResult
    /\ printer_impl = "PrettyPrinter"
    /\ config = [print_line_num |-> TRUE, group_by_target |-> TRUE, matcher |-> FALSE]
    /\ printer = [file_to_matches |-> [t \in Targets |-> << >>],
                  currently_printing_file |-> 0]
    /\ written = << >>
    /\ errors = 0
    /\ sent = [t \in Targets |-> 0]
    /\ ended = [t \in Targets |-> FALSE]
    /\ bad_sent = 0
    /\ displays = 0
    /\ channel = << >>
    /\ senders = 1
    /\ listen_pc = "recv"
    /\ delivered = << >>
    /\ received = << >>
    /\ left_at_close = 0
    /\ tasks_returned = {}
    /\ search_dir_pc = "walk"
    /\ spawned = << >>
    /\ joined = 0
    /\ WalkerIdle

JoinNext ==
    \/ search_dir_spawn
    \/ search_dir_walked
    \/ \E t \in SpawnedTargets : task_send_printable(t)
    \/ \E t \in SpawnedTargets : task_end_of_reading(t)
    \/ \E t \in SpawnedTargets : task_skip_binary(t)
    \/ search_dir_await
    \/ search_dir_return

\* The tasks run on the threads of the async_std executor: each takes the
\* steps it can, and so does search_directory.
JoinSpec ==
    /\ JoinInit
    /\ [][JoinNext]_vars
    /\ WF_vars(search_dir_walked \/ search_dir_await \/ search_dir_return)
    /\ \A t \in 1..MaxNames :
          WF_vars(t \in SpawnedTargets /\ (task_end_of_reading(t) \/ task_skip_binary(t)))

\* ------------------------------------------------------------------------
\* Walker and Crawler (src/src/walker.rs): a thread crawls the tree under
\* dir_path, one Crawler task per directory, sends File(path) for every file
\* and Quit at the end.  The channel is crossbeam's unbounded(): with the
\* receiver alive try_send and send succeed at once.
\* ------------------------------------------------------------------------

\* WalkerMessage::File(path)
File(path) == [type |-> "File", path |-> path]

\* WalkerMessage::Quit
WalkerQuit == [type |-> "Quit", path |-> 0]

\* A Crawler's place in crawl: `at` is "none" (no Crawler for the path),
\* "read_dir", "entries" (the while loop), "await" (the for loop over tasks)
\* or "returned"; `todo` are the entries dir_children has not yielded and
\* `tasks` the sub-directories a task was spawned for.
CrawlerAt(at, todo, tasks) == [at |-> at, todo |-> todo, tasks |-> tasks]

\* What the steps of the Walker and its Crawlers leave alone.
WalkerCall ==
    UNCHANGED <<readerVars, crawlVars, printVars, taskVars, searchVars,
                bufferVars, poolVars, matcherVars, listenVars, foldVars,
                tasksVars, joinVars>>

\* crawl, lines 59-65: read_dir lists the directory, or fails and crawl
\* returns.
crawl_read_dir(p) ==
    /\ crawler[p].at = "read_dir"
    /\ crawler' = [crawler EXCEPT ![p] =
          IF kind[p] = "dir"
          THEN CrawlerAt("entries", Children(p), {})
          ELSE CrawlerAt("returned", {}, {})]
    /\ UNCHANGED <<walker_pc, walker_sent>>
    /\ WalkerCall

\* crawl, lines 67-78: the next entry (in any order) is a file; File(path)
\* is sent.
crawl_send_file(p) ==
    /\ crawler[p].at = "entries"
    /\ \E c \in crawler[p].todo :
          /\ kind[c] = "file"
          /\ walker_sent' = Append(walker_sent, File(c))
          /\ crawler' = [crawler EXCEPT ![p].todo = @ \ {c}]
    /\ UNCHANGED walker_pc
    /\ WalkerCall

\* crawl, lines 79-84: the next entry is a directory; a task is spawned that
\* crawls it with a Crawler of its own.
crawl_spawn(p) ==
    /\ crawler[p].at = "entries"
    /\ \E c \in crawler[p].todo :
          /\ kind[c] \in {"dir", "unreadable"}
          /\ crawler' = [crawler EXCEPT
                ![p] = CrawlerAt("entries", crawler[p].todo \ {c},
                                 crawler[p].tasks \cup {c}),
                ![c] = CrawlerAt("read_dir", {}, {})]
    /\ UNCHANGED <<walker_pc, walker_sent>>
    /\ WalkerCall

\* crawl, lines 67-85: the next entry is neither a file nor a directory.
crawl_skip(p) ==
    /\ crawler[p].at = "entries"
    /\ \E c \in crawler[p].todo :
          /\ kind[c] = "other"
          /\ crawler' = [crawler EXCEPT ![p].todo = @ \ {c}]
    /\ UNCHANGED <<walker_pc, walker_sent>>
    /\ WalkerCall

\* crawl, line 67: dir_children is at its end, the while loop is over.
crawl_listed(p) ==
    /\ crawler[p].at = "entries"
    /\ crawler[p].todo = {}
    /\ crawler' = [crawler EXCEPT ![p].at = "await"]
    /\ UNCHANGED <<walker_pc, walker_sent>>
    /\ WalkerCall

\* A crawl that returns when the listing is over, its tasks not awaited.
crawl_return_detached(p) ==
    /\ crawler[p].at = "await"
    /\ crawler' = [crawler EXCEPT ![p].at = "returned"]
    /\ UNCHANGED <<walker_pc, walker_sent>>
    /\ WalkerCall

\* crawl, lines 88-92: every task of tasks has been awaited, each after it
\* finished; crawl returns.
crawl_return(p) ==
    /\ crawler[p].at = "await"
    /\ \A c \in crawler[p].tasks : crawler[c].at = "returned"
    /\ crawler' = [crawler EXCEPT ![p].at = "returned"]
    /\ UNCHANGED <<walker_pc, walker_sent>>
    /\ WalkerCall

\* Walker::spawn, lines 34-36: crawler.crawl().await is over; Quit is sent
\* and the thread finishes.
walker_send_quit ==
    /\ walker_pc = "crawl"
    /\ crawler[1].at = "returned"
    /\ walker_sent' = Append(walker_sent, WalkerQuit)
    /\ walker_pc' = "finished"
    /\ UNCHANGED crawler
    /\ WalkerCall

\* One step of the Crawler of path p, if the tree has a path p.
CrawlerStep(p) ==
    /\ p \in Paths
    /\ \/ crawl_read_dir(p)
       \/ crawl_send_file(p)
       \/ crawl_spawn(p)
       \/ crawl_skip(p)
       \/ crawl_listed(p)
       \/ crawl_return(p)

\* Walker::new(dir_path) and Walker::spawn, lines 22-32: the channel is
\* made and the thread starts the Crawler of the root, whatever the root is.
WalkerInit ==
    /\ BufferIdle
    /\ PoolIdle
    /\ MatcherIdle
    /\ ListenIdle
    /\ FoldIdle
    /\ TasksIdle
    /\ JoinIdle
    /\ ReaderIdle
    /\ PrintIdle
    /\ TaskIdle
    /\ SearchIdle
    /\ \E n \in 1..MaxNodes :
          /\ kind \in [1..n -> Kinds]
          /\ parent \in [1..n -> 0..(n - 1)]
          /\ crawler = [p \in 1..n |->
                           IF p = 1 THEN CrawlerAt("read_dir", {}, {})
                           ELSE CrawlerAt("none", {}, {})]
    /\ IsTree(kind, parent)
    /\ initial_count = 0
    /\ visit_queue = << >>
    /\ work_pending = 0
    /\ worker = << >>
    /\ handled = << >>
    /\ saw_one = {}
    /\ walker_pc = "crawl"
    /\ walker_sent = << >>

WalkerNext ==
    \/ \E p \in Paths : crawl_read_dir(p)
    \/ \E p \in Paths : crawl_send_file(p)
    \/ \E p \in Paths : crawl_spawn(p)
    \/ \E p \in Paths : crawl_skip(p)
    \/ \E p \in Paths : crawl_listed(p)
    \/ \E p \in Paths : crawl_return(p)
    \/ walker_send_quit

\* The crawls are tasks of the async_std executor and the Walker a thread:
\* each takes the steps it can.
WalkerSpec ==
    /\ WalkerInit
    /\ [][WalkerNext]_vars
    /\ \A p \in 1..MaxNodes : WF_vars(CrawlerStep(p))
    /\ WF_vars(walker_send_quit)

\* ------------------------------------------------------------------------
\* Properties of the line buffer reader
\* ------------------------------------------------------------------------

\* The texts of a sequence of LineResults, concatenated in order.
RECURSIVE ConcatText(_)
ConcatText(results) ==
    IF results = << >>
    THEN << >>
    ELSE Head(results).text \o ConcatText(Tail(results))

\* The first None has been returned and no call has returned since.
AtFirstNone == nones = 1 /\ ~last.some

\* C1: for every source, initial buffer size and split of the source across
\* reads, the lines read_line returns before its first None concatenate, in
\* order, to exactly the source bytes.
C1_RoundTrip == AtFirstNone => ConcatText(returned) = source

\* C1 witness: a 3-byte first line and a second line have been returned and
\* None reached, from a buffer that started with at most 2 bytes and so had to
\* grow in the middle of the first line.
C1_Witness ==
    /\ AtFirstNone
    /\ Len(returned) = 2
    /\ Len(returned[1].text) = 3
    /\ Len(line_buffer.buffer) = 4

\* ------------------------------------------------------------------------
\* Properties of the worker pool
\* ------------------------------------------------------------------------

\* The path can be reached from the root through directories that can be
\* read.
RECURSIVE Reachable(_)
Reachable(p) ==
    \/ p = 1
    \/ /\ kind[parent[p]] = "dir"
       /\ Reachable(parent[p])

\* Every worker has returned, so the awaits at the end of WorkerPool::spawn
\* complete.
PoolFinished == \A w \in Workers : worker[w].at = "returned"

\* C2: for every tree and every number of workers, the handler is never
\* called twice for a path, and when the pool has finished it has been called
\* exactly once for every file reachable from the root.
C2_ExactlyOnce ==
    /\ \A p \in Paths : handled[p] <= 1
    /\ PoolFinished =>
          \A p \in Paths : (kind[p] = "file" /\ Reachable(p)) => handled[p] = 1

\* C2 witness: a pool of two workers has finished a root directory holding
\* two files, each handled once.
C2_Witness ==
    /\ initial_count = 2
    /\ PoolFinished
    /\ Cardinality({p \in Paths : kind[p] = "file" /\ handled[p] = 1}) = 2

\* C3: for any finite tree under a root directory, also one with an
\* unreadable subdirectory, the crawl terminates: eventually the pending count
\* is 0 and every worker has returned.
C3_Terminates ==
    kind[1] = "dir" => <>(work_pending = 0 /\ PoolFinished)

\* The same crawl over a tree all of whose directories can be read does
\* terminate.
CrawlTerminatesWhenReadable ==
    (\A p \in Paths : kind[p] # "unreadable") => <>(work_pending = 0 /\ PoolFinished)

\* ------------------------------------------------------------------------
\* Properties of the printers
\* ------------------------------------------------------------------------

\* No line or header of another target is written between written[i] and
\* written[k].
Contiguous(i, k) ==
    \A j \in i..k :
        written[j].type \in {"line", "header"}
            => written[j].target_name = written[i].target_name

\* C4: in grouped mode, whatever the order the messages arrive in, nothing of
\* another target is written between two lines of the same target.
C4_NoInterleaving ==
    config.group_by_target =>
        \A i, k \in 1..Len(written) :
            (/\ i < k
             /\ written[i].type = "line"
             /\ written[k].type = "line"
             /\ written[i].target_name = written[k].target_name)
            => Contiguous(i, k)

\* The printer of src/src/printer.rs, which writes a target's lines only
\* when its EndOfReading arrives, keeps them contiguous.
NoInterleavingInPrinter ==
    printer_impl = "Printer" => C4_NoInterleaving

\* ------------------------------------------------------------------------
\* Properties of one search task
\* ------------------------------------------------------------------------

\* The lines of a byte sequence: each ends with its line break, but for a
\* last line that the end of the bytes cuts short.
RECURSIVE LinesFrom(_, _, _)
LinesFrom(bytes, from, i) ==
    IF i > Len(bytes)
    THEN IF from < i THEN <<SubSeq(bytes, from, Len(bytes))>> ELSE << >>
    ELSE IF bytes[i] = LINE_BREAK
         THEN <<SubSeq(bytes, from, i)>> \o LinesFrom(bytes, i + 1, i + 1)
         ELSE LinesFrom(bytes, from, i + 1)

Lines(bytes) == LinesFrom(bytes, 1, 1)

\* The Printables of the lines k..Len(lines) that the matcher matches, each
\* with its position as line number.
RECURSIVE MatchingFrom(_, _, _)
MatchingFrom(name, lines, k) ==
    IF k > Len(lines)
    THEN << >>
    ELSE (IF is_match(lines[k])
          THEN <<Printable(PrintableResult(name, k, lines[k]))>>
          ELSE << >>)
         \o MatchingFrom(name, lines, k + 1)

\* The messages of a type among those of a sequence, in order.
OfType(messages, type) == SelectSeq(messages, LAMBDA m : m.type = type)

\* The task has gone through search_via_reader and has returned.
SearchReturned == search_pc = "returned" /\ task.stats.total_files_visited = 1

\* C5: a search that was started has, when it returns, sent EndOfReading
\* exactly once, as its last message, after every Printable.
C5_EndOfReadingOnce ==
    SearchReturned =>
        /\ Len(OfType(task.sent, "EndOfReading")) = 1
        /\ task.sent[Len(task.sent)].type = "EndOfReading"

\* A search that read its source to the end has sent EndOfReading exactly
\* once, as its last message.
EndOfReadingOnceUnlessSkipped ==
    (SearchReturned /\ task.stats.skipped_files_non_utf8 = 0) =>
        /\ Len(OfType(task.sent, "EndOfReading")) = 1
        /\ task.sent[Len(task.sent)].type = "EndOfReading"

\* C6: a search that returns without skipping its source as binary has sent
\* one Printable for each line the matcher matches and for no other line,
\* with the name of the target, the position of the line in the source
\* counted from 1 and the bytes of the line with its line break.
C6_OnePrintablePerMatch ==
    (SearchReturned /\ task.stats.skipped_files_non_utf8 = 0) =>
        OfType(task.sent, "Printable") = MatchingFrom(TargetName, Lines(source), 1)

\* A source of three lines, read through a buffer that had to grow, whose
\* second and third lines match.
C6_Witness ==
    /\ SearchReturned
    /\ source = <<LINE_BREAK, 97, LINE_BREAK, 97>>
    /\ Len(line_buffer.buffer) > 1
    /\ Len(task.sent) = 3
    /\ task.sent[1] = Printable(PrintableResult(TargetName, 2, <<97, LINE_BREAK>>))
    /\ task.sent[2] = Printable(PrintableResult(TargetName, 3, <<97>>))

\* The position of the first line that is not valid UTF-8, 0 if there is none.
FirstInvalid(lines) ==
    IF \E k \in 1..Len(lines) : ~check_utf8(lines[k])
    THEN CHOOSE k \in 1..Len(lines) :
            /\ ~check_utf8(lines[k])
            /\ \A j \in 1..(k - 1) : check_utf8(lines[j])
    ELSE 0

\* The bytes of the lines 1..k together.
RECURSIVE BytesUpTo(_, _)
BytesUpTo(lines, k) ==
    IF k = 0 THEN 0 ELSE Len(lines[k]) + BytesUpTo(lines, k - 1)

\* The first invalid line of the source lies inside the sampling window.
InvalidInWindow ==
    LET k == FirstInvalid(Lines(source))
    IN k # 0 /\ BytesUpTo(Lines(source), k - 1) < BINARY_CHECK_LEN_BYTES

RecordOf(content) ==
    LET lines == Lines(content)
        k == FirstInvalid(lines)
        searched == IF k = 0 THEN lines ELSE SubSeq(lines, 1, k - 1)
        matching == MatchingFrom(0, searched, 1)
        RECURSIVE TextLen(_)
        TextLen(ms) == IF ms = << >> THEN 0
                       ELSE Len(Head(ms).printable.text) + TextLen(Tail(ms))
    IN [total_files_visited |-> 1,
        skipped_files_non_utf8 |-> IF k = 0 THEN 0 ELSE 1,
        lines_matched_count |-> Len(matching),
        lines_matched_bytes |-> TextLen(matching)]

NoRecord ==
    [total_files_visited |-> 0, skipped_files_non_utf8 |-> 0,
     lines_matched_count |-> 0, lines_matched_bytes |-> 0]

\* The element-wise sum of two records.
Plus(a, b) ==
    [total_files_visited |-> a.total_files_visited + b.total_files_visited,
     skipped_files_non_utf8 |-> a.skipped_files_non_utf8 + b.skipped_files_non_utf8,
     lines_matched_count |-> a.lines_matched_count + b.lines_matched_count,
     lines_matched_bytes |-> a.lines_matched_bytes + b.lines_matched_bytes]

\* Node p of tree d is a file that a search of the root reaches and opens:
\* the root itself, or a file below readable directories only.
SearchedFile(d, p) ==
    LET RECURSIVE Below(_)
        Below(q) == q = 1 \/ (d.kind[d.parent[q]] = "dir" /\ Below(d.parent[q]))
    IN d.kind[p] = "file" /\ Below(p)

\* The sum of the records of the files searched under one target.
SumOfTarget(target) ==
    IF target.type = "Stdin"
    THEN RecordOf(target.content)
    ELSE LET d == target.tree
             RECURSIVE Sum(_)
             Sum(p) == IF p = 0 THEN NoRecord
                       ELSE Plus(Sum(p - 1),
                                 IF SearchedFile(d, p) THEN RecordOf(d.content[p])
                                 ELSE NoRecord)
         IN Sum(Len(d.kind))

\* The sum of the records of the files searched under the first n targets.
RECURSIVE SumOfTargets(_, _)
SumOfTargets(ts, n) ==
    IF n = 0 THEN NoRecord ELSE Plus(SumOfTargets(ts, n - 1), SumOfTarget(ts[n]))

\* The fields of a ReadStats that the per-file records are summed into.
Summed(stats) ==
    [total_files_visited |-> stats.total_files_visited,
     skipped_files_non_utf8 |-> stats.skipped_files_non_utf8,
     lines_matched_count |-> stats.lines_matched_count,
     lines_matched_bytes |-> stats.lines_matched_bytes]

\* The targets the entry point called looks at: search takes the first
\* only.
Looked == IF entry = "search" THEN Min(1, Len(targets)) ELSE Len(targets)

\* The positions of the Path targets that are neither a file nor a
\* directory, in order.
RECURSIVE UnreachableFrom(_)
UnreachableFrom(i) ==
    IF i > Len(targets)
    THEN << >>
    ELSE (IF targets[i].type = "Path" /\ targets[i].tree.kind[1] = "other"
          THEN <<i>> ELSE << >>)
         \o UnreachableFrom(i + 1)

Unreachable == UnreachableFrom(1)

\* C8: the ReadStats a call of the Searcher returns is the element-wise sum
\* of the records of the files searched: files visited, files skipped,
\* matched lines and matched bytes.
C8_StatsAreSums ==
    result.type = "Ok" => Summed(result.stats) = SumOfTargets(targets, Looked)

\* The ReadStats search_1 returns is the element-wise sum of the records of
\* the files searched.
Search1StatsAreSums ==
    (entry = "search_1" /\ result.type = "Ok")
        => Summed(result.stats) = SumOfTargets(targets, Len(targets))

\* search_1 on the directory with a.txt, b.bin and c.txt returns 3 files
\* visited, 1 skipped, 1 matched line.
Search1OnThreeFiles ==
    /\ entry = "search_1"
    /\ targets = <<Path(ThreeFilesDir)>>
    /\ result.type = "Ok"
    /\ result.stats.total_files_visited = 3
    /\ result.stats.skipped_files_non_utf8 = 1
    /\ result.stats.lines_matched_count = 1

\* C9: when search_1 returns, every Path target that is neither a file nor
\* a directory is in the list handed to the caller, in order, and every
\* other target, before and after, has been searched: the loop reached the
\* end of the list and the statistics gathered are those of all of them.
C9_UnreachableListed ==
    (entry = "search_1" /\ result.type # "none") =>
        /\ error_paths = Unreachable
        /\ Unreachable # << >> => result = TargetsNotFound(Unreachable)
        /\ cursor = Len(targets) + 1
        /\ Summed(agg_stats) = SumOfTargets(targets, Len(targets))

\* An unreachable path between a file and a directory: both are searched.
C9_Witness ==
    /\ entry = "search_1"
    /\ targets = <<Path(FileAt(OneMatch)), Path(NoSuchPath), Path(ThreeFilesDir)>>
    /\ result = TargetsNotFound(<<2>>)
    /\ agg_stats.total_files_visited = 4
    /\ agg_stats.lines_matched_count = 2

\* C10 as the spec has it: when search_1 returns, the caller holds the
\* aggregate statistics of the targets searched together with the list of
\* the unreachable targets.
C10_BothTogether ==
    (entry = "search_1" /\ result.type # "none") =>
        /\ Summed(result.stats) = SumOfTargets(targets, Len(targets))
        /\ result.paths = Unreachable

\* C10, amended: when search_1 returns, the caller holds one of the two and
\* never both: the aggregate statistics if every target was reachable, and
\* otherwise the list of the unreachable targets without any statistics.
C10_StatsOrList ==
    (entry = "search_1" /\ result.type # "none") =>
        IF Unreachable = << >>
        THEN /\ result.type = "Ok"
             /\ Summed(result.stats) = SumOfTargets(targets, Len(targets))
             /\ result.paths = << >>
        ELSE /\ result.type = "Err"
             /\ result.paths = Unreachable
             /\ result.stats = ReadStats_default

\* A file with two matches was searched and a path was unreachable: the
\* caller holds the list only.
C10_Witness ==
    /\ entry = "search_1"
    /\ targets = <<Path(FileAt(TwoMatches)), Path(NoSuchPath)>>
    /\ result.type = "Err"
    /\ result.paths = <<2>>
    /\ result.stats.lines_matched_count = 0
    /\ agg_stats.lines_matched_count = 2

\* C11: when a Searcher entry point called on a non-empty list has returned,
\* the run was not stopped by a target kind (no panic) and every target of
\* the list was driven: none is left behind the cursor.
C11_EveryTargetDriven ==
    (targets # << >> /\ result # NoResult) =>
        /\ result.type # "panic"
        /\ cursor > Len(targets)

\* The line break occurs in text at its last byte only, if at all.
BreakOnlyLast(text) == \A j \in 1..(Len(text) - 1) : text[j] # LINE_BREAK

EndsWithBreak(text) == text # << >> /\ text[Len(text)] = LINE_BREAK

OnlyBreaks(bytes) == \A j \in 1..Len(bytes) : bytes[j] = LINE_BREAK

\* C12: every line read_line has returned is non-empty and holds the line
\* break as its last byte only; a line without line break is the last one
\* returned, comes when the source is exhausted and only if the source does
\* not end with the line break; the first read of an empty source gives
\* None; a source of N line breaks gives N lines of one byte each.
C12_LinesWellFormed ==
    /\ \A i \in 1..Len(returned) :
          LET text == returned[i].text
          IN /\ text # << >>
             /\ BreakOnlyLast(text)
             /\ ~EndsWithBreak(text) =>
                   /\ i = Len(returned)
                   /\ rpos = Len(source)
                   /\ ~EndsWithBreak(source)
    /\ (source = << >> /\ lines_read = 1 /\ pc = "idle") =>
          (~last.some /\ returned = << >>)
    /\ (OnlyBreaks(source) /\ nones >= 1) =>
          /\ Len(returned) = Len(source)
          /\ \A i \in 1..Len(returned) : returned[i].text = <<LINE_BREAK>>

\* Two empty lines and a last line without line break have been read to the
\* end.
C12_Witness ==
    /\ source = <<LINE_BREAK, LINE_BREAK, 97>>
    /\ AtFirstNone
    /\ Len(returned) = 3
    /\ returned[3].text = <<97>>

\* The number of lines of results that do not end with the line break.
RECURSIVE Unterminated(_)
Unterminated(results) ==
    IF results = << >> THEN 0
    ELSE (IF EndsWithBreak(Head(results).text) THEN 0 ELSE 1)
         + Unterminated(Tail(results))

\* C13: the end of the line stream is terminal.  Once read_line has returned
\* None, or has returned the final line without line break, no step returns
\* a further line: every later call gives None.  When None has been
\* returned for a source that does not end with the line break, the final
\* line without line break has been returned exactly once.
C13_EndIsTerminal ==
    [][/\ (nones >= 1 \/ Unterminated(returned) >= 1) => returned' = returned
       /\ (nones' >= 1 /\ source # << >> /\ ~EndsWithBreak(source)) =>
             /\ Unterminated(returned') = 1
             /\ ~EndsWithBreak(returned'[Len(returned')].text)]_vars

\* read_line has returned None twice after the final line without line
\* break.
C13_Witness ==
    /\ source = <<97, LINE_BREAK, 97>>
    /\ nones = MaxNoneReads
    /\ pc = "idle"
    /\ ~last.some
    /\ Len(returned) = 2
    /\ Unterminated(returned) = 1

\* C14: in every state of the read loop, 0 <= start <= end <= len(buffer);
\* the recorded break offsets, taken in the order consume_line pops them
\* (from the back of the deque), are strictly increasing, lie in
\* [start, end) and each indexes a line break of the buffer.
C14_BufferWellFormed ==
    LET b == line_buffer
        idxs == b.line_break_idxs
    IN /\ 0 <= b.start
       /\ b.start <= b.end
       /\ b.end <= Len(b.buffer)
       /\ \A i \in 1..(Len(idxs) - 1) : idxs[i + 1] < idxs[i]
       /\ \A i \in 1..Len(idxs) :
             /\ b.start <= idxs[i]
             /\ idxs[i] < b.end
             /\ b.buffer[idxs[i] + 1] = LINE_BREAK

\* A line has been consumed and two line breaks are still recorded behind
\* the new start.
C14_Witness ==
    /\ line_buffer.start > 0
    /\ Len(line_buffer.line_break_idxs) = 2
    /\ Len(returned) = 1

\* C15: no operation of the line buffer decreases the length of its backing
\* buffer: after every call of fill, ensure_capacity, consume_line,
\* consume_remaining, roll_to_front or refresh, in any order, the buffer is
\* at least as long as it was when the operation was called.
C15_LengthNeverDecreases ==
    op # "none" => Len(line_buffer.buffer) >= Len(before.buffer)

\* A buffer that has grown beyond every start size has been refreshed.
C15_Witness ==
    /\ op = "refresh"
    /\ Len(line_buffer.buffer) > MaxStartSize
    /\ before.end > 0
    /\ line_buffer.end = 0

\* C16: ensure_capacity changes the buffer only when the writable tail
\* [end, len) is empty; then it doubles the length, leaves at least one
\* writable byte (also from length 0) and leaves start, end, the break
\* offsets and the bytes in [0, end) as they were.
C16_EnsureCapacity ==
    op = "ensure_capacity" =>
        /\ writable_len(before) # 0 => line_buffer = before
        /\ writable_len(before) = 0 =>
              /\ Len(before.buffer) > 0 =>
                    Len(line_buffer.buffer) = 2 * Len(before.buffer)
              /\ writable_len(line_buffer) >= 1
              /\ line_buffer.start = before.start
              /\ line_buffer.end = before.end
              /\ line_buffer.line_break_idxs = before.line_break_idxs
              /\ SubSeq(line_buffer.buffer, 1, line_buffer.end)
                    = SubSeq(before.buffer, 1, before.end)

\* ensure_capacity has run on a buffer of length 0.
C16_Witness ==
    /\ op = "ensure_capacity"
    /\ Len(before.buffer) = 0
    /\ Len(line_buffer.buffer) = 2

\* C17: every buffer BufferPool::acquire returns, after any calls of acquire
\* and return_to_pool, has start = 0, end = 0 and no recorded break offsets.
C17_AcquiredIsClean ==
    pool_op.name = "acquire" =>
        /\ pool_op.buf.start = 0
        /\ pool_op.buf.end = 0
        /\ pool_op.buf.line_break_idxs = << >>

\* acquire has been called after a buffer was returned, while another task
\* holds a buffer it has read through.
C17_Witness ==
    /\ pool_op.name = "acquire"
    /\ ever_returned
    /\ Len(held) = 2
    /\ held[1].end > 0
    /\ held[1].line_break_idxs # << >>

\* C18: the pool recycles: once return_to_pool has been called with a
\* buffer, the pool holds an idle buffer for the next acquire.
C18_ReturnedIsIdleInPool ==
    pool_op.name = "return_to_pool" => pool # << >>

\* C19: the buffer acquire constructs for a size hint has the initial length
\* min(size_hint, maximum), the maximum being the cap the source names.
C19_InitialLengthCapped ==
    pool_op.name = "acquire" =>
        pool_op.buf.len = Min(pool_op.size_hint, SizeHintCap)

\* C20: for every matcher (DummyMatcher, and RegexMatcher with any case and
\* whole-word setting) and every byte slice, is_match is true if and only if
\* find_matches gives at least one match.
C20_IsMatchIffFound ==
    (is_match_out.done /\ find_matches_out.done) =>
        (is_match_out.value <=> find_matches_out.value # << >>)

\* A case-insensitive whole-word matcher for "a" has been asked about
\* " A ": it matches, and the match found spans the three bytes.
C20_Witness ==
    /\ matcher = RegexMatcher(<<97>>, TRUE, TRUE)
    /\ bytes_given = <<32, 65, 32>>
    /\ is_match_out = [done |-> TRUE, value |-> TRUE]
    /\ find_matches_out = [done |-> TRUE, value |-> <<[start |-> 0, stop |-> 3]>>]

\* C21: the ranges one find_matches call returns are sorted ascending and do
\* not overlap one another, and every range has
\* 0 <= start < stop <= length of the slice: no range is empty.
C21_RangesSortedNonEmpty ==
    find_matches_out.done =>
        LET found == find_matches_out.value
        IN /\ \A i \in 1..Len(found) :
                /\ 0 <= found[i].start
                /\ found[i].start < found[i].stop
                /\ found[i].stop <= Len(bytes_given)
           /\ \A i \in 1..(Len(found) - 1) :
                found[i].stop <= found[i + 1].start

\* Quit is in the queue.
QuitQueued == \E i \in 1..Len(visit_queue) : visit_queue[i] = Quit

\* C22: no worker has returned, or is about to return, while the pending
\* count is above 0, and Quit is in the queue only once the count has reached
\* 0; so a worker that finds the queue empty while the count is above 0 has
\* not left its loop.
C22_NoEarlyReturn ==
    /\ \A w \in Workers :
          worker[w].at \in {"returned", "push_quit", "forward_quit"} =>
              work_pending = 0
    /\ QuitQueued => work_pending = 0

\* One worker finds the queue empty while the other is listing a directory.
C22_Witness ==
    /\ initial_count = 2
    /\ visit_queue = << >>
    /\ work_pending > 0
    /\ \E w, v \in Workers :
          /\ worker[w].at = "pop"
          /\ worker[v].at = "push_child"

\* C23: in one crawl exactly one worker sees the pending count go from 1 to
\* 0: never more than one does, and eventually one has, every worker has
\* returned and the Quit passed on by the last of them is still in the
\* queue.
C23_OneWorkerShutsDown ==
    /\ [](Cardinality(saw_one) <= 1)
    /\ <>[](/\ Cardinality(saw_one) = 1
            /\ PoolFinished
            /\ QuitQueued)

\* The same for a tree all of whose directories can be read.
OneWorkerShutsDownWhenReadable ==
    (\A p \in Paths : kind[p] # "unreadable") => C23_OneWorkerShutsDown

\* The files of tree d that a traversal skipping only what cannot be read
\* searches.
FilesToSearch(d) == {p \in 1..Len(d.kind) : SearchedFile(d, p)}

\* C24: when search_directory has been called on a directory, it has
\* returned its statistics normally, and they count every file that lies
\* below readable directories only, whatever unreadable directory or
\* failing entry lies beside it.
C24_TraversalNotAborted ==
    (entry = "search_directory" /\ result # NoResult) =>
        /\ result.type = "Ok"
        /\ result.stats.total_files_visited
             = Cardinality(FilesToSearch(targets[1].tree))

\* The same for directories with unreadable subdirectories and no failing
\* entry.
UnreadableDirectoriesSkipped ==
    (\A p \in 1..Len(targets[1].tree.kind) :
        targets[1].tree.kind[p] \notin {"failed", "vanished"})
    => C24_TraversalNotAborted

\* ------------------------------------------------------------------------
\* Properties of the printer's two modes
\* ------------------------------------------------------------------------

\* The line written[k] stands in a block of its target: a header of the
\* target precedes it and only lines of the target lie between the two.
InBlock(k) ==
    \E h \in 1..(k - 1) :
        /\ written[h] = Header(written[k].target_name)
        /\ \A j \in (h + 1)..k :
              /\ written[j].type = "line"
              /\ written[j].target_name = written[k].target_name

\* C25: in grouped mode every line written stands in a block that begins
\* with the header of its target, and once the EndOfReading of a target has
\* been handled the printer holds no buffered line of that target.
C25_GroupedBlocks ==
    config.group_by_target =>
        /\ \A k \in 1..Len(written) : written[k].type = "line" => InBlock(k)
        /\ \A t \in Targets : ended[t] => printer.file_to_matches[t] = << >>

\* The printer of src/src/printer.rs writes every line under the header of
\* its target and keeps nothing of a target whose EndOfReading it handled.
GroupedBlocksInPrinter ==
    printer_impl = "Printer" => C25_GroupedBlocks

\* Either printer keeps nothing of a target once its EndOfReading is handled.
NothingBufferedAfterEnd ==
    \A t \in Targets : ended[t] => printer.file_to_matches[t] = << >>

\* The step renders the Printable the task of target t sent in it: one line
\* of t with the number sent is written after all that was written before.
RendersOnReceipt(t) ==
    /\ Len(written') = Len(written) + 1
    /\ SubSeq(written', 1, Len(written)) = written
    /\ written'[Len(written')].type = "line"
    /\ written'[Len(written')].target_name = t
    /\ written'[Len(written')].line_num = sent'[t]

\* A step of a printer in immediate mode: a Printable is rendered on receipt,
\* the per-target buffer is empty, and an EndOfReading writes nothing and
\* leaves the printer as it was.
ImmediateStep ==
    /\ \A t \in Targets : printer'.file_to_matches[t] = << >>
    /\ \A t \in Targets : sent'[t] # sent[t] => RendersOnReceipt(t)
    /\ \A t \in Targets :
          ended'[t] # ended[t] =>
              /\ written' = written
              /\ printer' = printer
              /\ errors' = errors

\* C26: in immediate (non-grouped) mode every Printable is rendered when it
\* is received, after all that was rendered before, the per-target buffer
\* stays empty, and an EndOfReading writes nothing and changes no printer
\* state.
C26_ImmediateMode ==
    [][~config.group_by_target => ImmediateStep]_vars

\* The same for the steps that do not send a line of invalid UTF-8 to a
\* printer without a matcher.
ImmediateModeWhenDecodable ==
    [][(/\ ~config.group_by_target
        /\ (config.matcher \/ bad_sent' = bad_sent)) => ImmediateStep]_vars

\* C27: the lines of one target stand in the rendered output in the order
\* they were matched, by ascending line number, in both printer modes and
\* whatever other targets send in between.
C27_LinesInMatchOrder ==
    \A i, k \in 1..Len(written) :
        (/\ i < k
         /\ written[i].type = "line"
         /\ written[k].type = "line"
         /\ written[i].target_name = written[k].target_name)
        => written[i].line_num < written[k].line_num

\* Two lines of target 1 were buffered in grouped mode with a line of target
\* 2 received between them, and both are written.
C27_Witness ==
    /\ config.group_by_target
    /\ printer_impl = "Printer"
    /\ sent[1] = 2
    /\ sent[2] = 1
    /\ \E i, k \in 1..Len(written) :
          /\ i < k
          /\ written[i].type = "line" /\ written[i].target_name = 1
          /\ written[k].type = "line" /\ written[k].target_name = 1

\* ------------------------------------------------------------------------
\* Properties of the threaded printer
\* ------------------------------------------------------------------------

\* C28: listen returns if and only if every Sender has been dropped, and by
\* then it has passed every message that was sent to print, in the order
\* sent: it does not return while a Sender is alive or a message waits, and
\* once every Sender is dropped it does return.
C28_ListenFinishesAtClosure ==
    /\ [](received \o channel = delivered)
    /\ [](listen_pc = "returned" =>
            /\ senders = 0
            /\ channel = << >>
            /\ received = delivered)
    /\ [](senders = 0 /\ listen_pc = "recv" => <>(listen_pc = "returned"))

\* listen has returned after printing messages that were still in the channel
\* when the last Sender was dropped.
C28_Witness ==
    /\ listen_pc = "returned"
    /\ left_at_close >= 2
    /\ Len(received) = MaxMessages

\* ------------------------------------------------------------------------
\* Properties of rendering one line
\* ------------------------------------------------------------------------

\* Line n of target t is held in the printer's buffer of t.
Buffered(t, n) ==
    \E i \in 1..Len(printer.file_to_matches[t]) :
        printer.file_to_matches[t][i].line_num = n

\* Line n of target t has been written.
Rendered(t, n) ==
    \E i \in 1..Len(written) :
        /\ written[i].type = "line"
        /\ written[i].target_name = t
        /\ written[i].line_num = n

\* The lines received that are neither buffered nor written.
Dropped ==
    {tn \in Targets \X (1..MaxMessages) :
        /\ tn[2] <= sent[tn[1]]
        /\ ~Buffered(tn[1], tn[2])
        /\ ~Rendered(tn[1], tn[2])}

\* How many of the lines the printer has taken out of its buffers, or never
\* buffered, were not valid UTF-8.
UndecodableHandled ==
    LET RECURSIVE InBuffers(_)
        InBuffers(t) ==
            IF t = 0 THEN 0
            ELSE Cardinality({i \in 1..Len(printer.file_to_matches[t]) :
                                 ~check_utf8(printer.file_to_matches[t][i].text)})
                 + InBuffers(t - 1)
    IN bad_sent - InBuffers(MaxNames)

\* C29: a line that fails UTF-8 decoding when it is printed is reported and
\* does not stop the printer: every such line the printer has come to is
\* reported, and no line that decodes is left out, whether it was buffered
\* with the failing line or came after it.
C29_UndecodableReportedOthersRendered ==
    /\ errors >= UndecodableHandled
    /\ Cardinality(Dropped) <= UndecodableHandled
    /\ (config.matcher => Dropped = {})

\* With a Matcher attached the failing part of the line is reported and
\* every line is written.
ReportedWithMatcher ==
    config.matcher => C29_UndecodableReportedOthersRendered

\* Without a Matcher no failure is ever reported.
NeverReportedWithoutMatcher ==
    ~config.matcher => errors = 0

\* The bytes of the segments, one after another.
RECURSIVE SegmentBytes(_)
SegmentBytes(segments) ==
    IF segments = << >> THEN << >>
    ELSE Head(segments).bytes \o SegmentBytes(Tail(segments))

\* The segments written in the accent colour.
Accented(segments) ==
    SelectSeq(segments, LAMBDA segment : segment.color = "red")

\* The line written by print_colorized is the line number and then the
\* slice split at the ranges find_matches gives for it: the segments
\* together are the bytes of the slice, each once, and the segments in the
\* accent colour are the matched spans, in order.
SplitAtMatches ==
    LET ranges == Matcher_find_matches(matcher, bytes_given)
        segments == written[1].segments
    IN /\ written[1].line_num = 1
       /\ SegmentBytes(segments) = bytes_given
       /\ Len(Accented(segments)) = Len(ranges)
       /\ \A i \in 1..Len(ranges) :
             Accented(segments)[i].bytes
                 = Slice(bytes_given, ranges[i].start, ranges[i].stop)

RECURSIVE SumOf(_, _)
SumOf(records, f) ==
    IF records = << >> THEN 0
    ELSE Head(records)[f] + SumOf(Tail(records), f)

\* The aggregate of a sequence of records: the sum of each counter and the
\* greatest max_buffer_size.
Aggregate(records) ==
    [total_files_visited |-> SumOf(records, "total_files_visited"),
     skipped_files_non_utf8 |-> SumOf(records, "skipped_files_non_utf8"),
     non_utf8_bytes_checked |-> SumOf(records, "non_utf8_bytes_checked"),
     lines_matched_count |-> SumOf(records, "lines_matched_count"),
     lines_matched_bytes |-> SumOf(records, "lines_matched_bytes"),
     max_buffer_size |->
         Max(0, CHOOSE m \in {0} \cup {records[i].max_buffer_size : i \in 1..Len(records)} :
                   \A i \in 1..Len(records) : records[i].max_buffer_size <= m),
     buffers_created |-> SumOf(records, "buffers_created")]

\* C31: in whatever order and grouping the records are folded, and with
\* default records folded in or folded into, the aggregates left stand for
\* the same whole, and the one aggregate left at the end holds the sum of
\* every counter and the greatest max_buffer_size of the records.
C31_FoldIsOrderFree ==
    /\ Aggregate(parts) = Aggregate(inputs)
    /\ Len(parts) = 1 => parts[1] = Aggregate(inputs)

\* Three records, not all the same, have been folded into one with an
\* aggregate that began as the default record.
C31_Witness ==
    /\ Len(inputs) = 3
    /\ inputs[1] # inputs[2]
    /\ inputs[2].max_buffer_size > inputs[3].max_buffer_size
    /\ inputs[3].max_buffer_size > 0
    /\ Len(parts) = 1
    /\ parts[1].total_files_visited = 3

\* ------------------------------------------------------------------------
\* Properties of the line buffer of src/src/line_buffer.rs
\* ------------------------------------------------------------------------

\* Bytes of the 22-byte source of the tests have been read and no line has
\* been drained yet.
TestSourceRead(initial_capacity) ==
    /\ source = TestSource
    /\ line_buffer.initial_capacity = initial_capacity
    /\ rpos > 0
    /\ returned = << >>

\* C32: a read does not change the length of a buffer whose free space
\* holds what is read (capacity 128, the 22-byte source: the length stays
\* 128), and a buffer of capacity 8 has grown to 32 when the 22 bytes are
\* read.
C32_GrowsOnlyAsNeeded ==
    /\ TestSourceRead(128) => line_buffer.len = 128
    /\ (TestSourceRead(8) /\ rpos = Len(source)) => line_buffer.len = 32

\* What the code does: the first read makes either buffer 8000 bytes long,
\* and a read with less than 8000 bytes free doubles that.
GrowsToMinCapacity ==
    \A initial_capacity \in {8, 128} :
        TestSourceRead(initial_capacity) => line_buffer.len \in {8000, 16000}

\* C33: the internal buffer never shrinks: no call of read_to_buffer or
\* read_next_line leaves its Vec shorter than it was before the call.
C33_BufferNeverShrinks ==
    [][line_buffer'.len >= line_buffer.len]_vars

\* read_to_buffer by itself never makes the buffer shorter; only draining a
\* line does.
OnlyDrainingShrinks ==
    [][line_buffer'.len < line_buffer.len =>
          /\ Len(returned') = Len(returned) + 1
          /\ line_buffer.len - line_buffer'.len = Len(returned'[Len(returned')])]_vars

\* ------------------------------------------------------------------------
\* Properties of the sampling window
\* ------------------------------------------------------------------------

\* The positions of the line breaks of the source, in order.
BreaksOf(bytes) ==
    SelectSeq([i \in 1..Len(bytes) |-> IF bytes[i] = LINE_BREAK THEN i ELSE 0],
              LAMBDA i : i # 0)

\* Where line k of a source that ends with a line break begins, as a byte
\* offset, and the line itself.
OffsetOf(bytes, k) == IF k = 1 THEN 0 ELSE BreaksOf(bytes)[k - 1]

LineOf(bytes, k) == SubSeq(bytes, OffsetOf(bytes, k) + 1, BreaksOf(bytes)[k])

\* The lines of the source that are not valid UTF-8 and begin before byte
\* offset 512.
InvalidBefore512 ==
    {k \in 1..Len(BreaksOf(source)) :
        /\ ~check_utf8(LineOf(source, k))
        /\ OffsetOf(source, k) < 512}

\* The lines among the first n of the source that match, as the Printables
\* sent for them.
PrintablesUpTo(n) ==
    LET lines == [k \in 1..n |-> LineOf(source, k)]
    IN MatchingFrom(TargetName, lines, 1)

\* C34: a line is checked for UTF-8 validity exactly when it begins before
\* byte offset 512 of the source.  If an invalid line begins there, the file
\* is skipped, at the first such line; if all invalid lines begin at offset
\* 512 or later, the search is not aborted (every matching line is sent, the
\* invalid ones too, and EndOfReading after them) and the file is not
\* counted as skipped.
C34_WindowIs512Bytes ==
    SearchReturned =>
        IF InvalidBefore512 # {}
        THEN LET k == CHOOSE i \in InvalidBefore512 :
                          \A j \in InvalidBefore512 : i <= j
             IN /\ task.stats.skipped_files_non_utf8 = 1
                /\ task.sent = PrintablesUpTo(k - 1)
        ELSE /\ task.stats.skipped_files_non_utf8 = 0
             /\ task.sent = PrintablesUpTo(Len(BreaksOf(source)))
                               \o <<EndOfReading(TargetName)>>

\* An invalid line that begins at byte offset 512 exactly was searched like
\* any other: the sixteen lines before it, the line itself and EndOfReading
\* were sent.
C34_Witness ==
    /\ SearchReturned
    /\ Len(source) = 480 + 32 + 3
    /\ OffsetOf(source, 17) = 512
    /\ ~check_utf8(LineOf(source, 17))
    /\ Len(task.sent) = 18

\* A whole-word occurrence of the matcher's pattern at offset s of the
\* slice: the pattern is there, after the start of a line or a non-word
\* character, and before the end of a line or a non-word character.
WordOccurrenceAt(m, bytes, s) ==
    /\ s \in 0..Len(bytes)
    /\ literal_at(m, bytes, s)
    /\ \/ line_start(bytes, s)
       \/ s > 0 /\ non_word_at(bytes, s - 1)
    /\ \/ line_end(bytes, s + Len(m.pattern))
       \/ non_word_at(bytes, s + Len(m.pattern))

\* find_matches was called on a RegexMatcher built with match_whole_word.
WholeWordCalled ==
    /\ find_matches_out.done
    /\ matcher.type = "RegexMatcher"
    /\ matcher.match_whole_word

\* C35: with whole-word matching each Match of find_matches covers exactly
\* the bytes of one occurrence of the pattern, without the delimiter bytes
\* around it, and every whole-word occurrence in the line is reported.
C35_WholeWordMatchesArePattern ==
    WholeWordCalled =>
        LET ranges == find_matches_out.value
        IN /\ \A k \in 1..Len(ranges) :
                 /\ WordOccurrenceAt(matcher, bytes_given, ranges[k].start)
                 /\ ranges[k].stop = ranges[k].start + Len(matcher.pattern)
           /\ \A s \in 0..Len(bytes_given) :
                 WordOccurrenceAt(matcher, bytes_given, s)
                     => \E k \in 1..Len(ranges) : ranges[k].start = s

\* What find_matches gives with whole-word matching: each Match is the match
\* of the whole expression, a whole-word occurrence with the delimiter byte
\* before it and the one after it, where there is one.
WholeWordMatchesHoldDelimiters ==
    WholeWordCalled =>
        LET ranges == find_matches_out.value
        IN \A k \in 1..Len(ranges) :
              \E s \in {ranges[k].start, ranges[k].start + 1} :
                 /\ WordOccurrenceAt(matcher, bytes_given, s)
                 /\ ranges[k].stop \in {s + Len(matcher.pattern),
                                        s + Len(matcher.pattern) + 1}

\* The Visit messages in the queue.
VisitsQueued ==
    Cardinality({i \in 1..Len(visit_queue) : visit_queue[i].type = "Visit"})

\* The workers that popped a Visit message and have not reached the
\* fetch_sub for it.
VisitsInHand ==
    Cardinality({w \in Workers :
                    worker[w].at \in {"visit", "count_child", "push_child",
                                      "decrement"}})

\* C36: the pending count is at least the number of Visit messages queued
\* plus the number popped and not yet decremented for; so a worker that
\* decrements finds it at least 1, it never wraps below 0, and when it is 0
\* no Visit message is in the queue.
C36_PendingCoversVisits ==
    /\ work_pending >= VisitsQueued + VisitsInHand
    /\ \A w \in Workers : worker[w].at = "decrement" => work_pending >= 1
    /\ work_pending # -1
    /\ work_pending = 0 => VisitsQueued = 0

\* C36 witness: while one worker is about to decrement for a directory with
\* two entries, one entry is still queued and the other is in the hands of
\* the second worker: the count is 3.
C36_Witness ==
    /\ work_pending = 3
    /\ VisitsQueued = 1
    /\ VisitsInHand = 2
    /\ \E w \in Workers : worker[w].at = "decrement" /\ worker[w].path = 1

\* The listen loop has ended with a line still in the per-target buffer.
LineLeftBuffered ==
    /\ listen_pc = "returned"
    /\ \E t \in Targets : printer.file_to_matches[t] # << >>

\* C37: in grouped mode, when the listen loop ends the per-target buffer
\* holds no line, whatever the search tasks sent before the channel closed,
\* also a task that sent a matching line and then skipped its file as
\* binary.
C37_AllRenderedAtEnd ==
    config.group_by_target => ~LineLeftBuffered

\* If every task read its source to the end, the listen loop ends with
\* nothing buffered and every Printable sent rendered.
AllRenderedUnlessSkipped ==
    (/\ config.group_by_target
     /\ listen_pc = "returned"
     /\ \A t \in Targets : ended[t])
        => /\ \A t \in Targets : printer.file_to_matches[t] = << >>
           /\ Cardinality({k \in 1..Len(written) : written[k].type = "line"})
                 = Cardinality({k \in 1..Len(delivered) :
                                   delivered[k].type = "Printable"})

\* Every task returns and the printer's thread then finishes.
ListenEndsAfterTasks == <>(listen_pc = "returned")

\* The step of search_file in which File::open fails: the only one that
\* takes the task from the open to its return.
OpenFailedStep == search_pc = "open" /\ search_pc' = "returned"

\* The task sent nothing, touched no buffer and reported no path.
SkippedSilently ==
    /\ task'.sent = << >>
    /\ UNCHANGED <<readerVars, error_paths>>

\* C40: a file that cannot be opened is skipped silently: nothing is sent
\* for it, no buffer is acquired and it is not listed as unreachable; and it
\* is still counted in the statistics as a visited file.
C40_OpenFailureCountedAsVisited ==
    [][OpenFailedStep =>
          /\ SkippedSilently
          /\ task'.stats.total_files_visited = 1]_vars

\* A file that cannot be opened is skipped silently and leaves the default
\* record: no file visited, nothing skipped, nothing matched.
OpenFailureLeavesDefault ==
    [][OpenFailedStep =>
          /\ SkippedSilently
          /\ task'.stats = ReadStats_default
          /\ task'.stats.total_files_visited = 0]_vars

\* The sum of the records of the tasks search_directory spawned.
SumOfSpawned ==
    LET RECURSIVE Sum(_)
        Sum(i) == IF i = 0 THEN ReadStats_default
                  ELSE fold_in(Sum(i - 1), task_record(spawned[i]))
    IN Sum(Len(spawned))

\* search_directory has returned.
SearchDirReturned == search_dir_pc = "returned"

SearchDirectoryReturns == <>SearchDirReturned

QuitsSent == {i \in 1..Len(walker_sent) : walker_sent[i].type = "Quit"}

\* The files the crawl reaches: those under readable directories only.
FilesUnderRoot == {p \in Paths : kind[p] = "file" /\ p # 1 /\ Reachable(p)}

====
